---- MODULE Spec2Model ----
(***************************************************************************)
(* Host side of the ESP32-P4 JIT loader: the device session                *)
(* (DeviceManager) with its allocation table, the loaded-function handle   *)
(* (JITFunction), the per-call argument marshaller (SmartArgs) and the     *)
(* two-pass loader (P4JIT.load).                                           *)
(*                                                                         *)
(* The device firmware and the serial link are the environment: every      *)
(* exchange (_send_packet) ends "ok", with an error frame ("deverr") or    *)
(* with a transport failure ("timeout"); an ALLOC that is answered carries *)
(* an address the device chose, or a nonzero err field, or is too short.   *)
(* The device is trusted, as the allocation table's users must, to return  *)
(* an address whose range does not meet a tracked record.                  *)
(***************************************************************************)
EXTENDS Integers, Sequences, FiniteSets, TLC

VARIABLES
    allocations,  \* DeviceManager.allocations: address -> [size, caps, align]
    handle,       \* the JITFunction that P4JIT.load returned (NoHandle: none yet)
    pc,           \* position of the running handler ("idle" between handlers)
    call,         \* frame of the running multi-step handler (load or smart call)
    op,           \* the latest top-level operation and its inputs
    wire,         \* frames written to the link by the latest top-level operation
    err,          \* the exception the latest top-level operation raised ("none")
    before,       \* allocation table when the latest top-level operation began
    live,         \* addresses a successful allocate returned and no successful free took
    dm,           \* per session: DeviceManager.port, .serial (and the port it
                  \* is open on), .device_info
    _active_connections  \* DeviceManager._active_connections: port -> session

vars == <<allocations, handle, pc, call, op, wire, err, before, live,
          dm, _active_connections>>
\* The link state of the sessions.
link == <<dm, _active_connections>>

----------------------------------------------------------------------------
(* Bounds of the model *)

NumAddrs == 4
MaxArgs == 2
\* nbytes of an array argument.
ArrayBytes == 16
\* Most parameters of a signature handed to the wrapper build, and the
\* largest args_array_size it is configured with.
MaxParams == 4
MaxSlots == 4
\* Longest payload of the response frames that are cut and altered.
MaxPayloadLen == 4
\* Length of a request payload whose byte sum passes 2^16.
BigLen == 300

(* Program constants *)

CHUNK_SIZE == 65528
ARGS_ARRAY_SIZE == 32
SAFETY_PADDING == 64
MALLOC_CAP_EXEC == 1
MALLOC_CAP_8BIT == 4
MALLOC_CAP_SPIRAM == 1024
PROTOCOL_VERSION_MAJOR == 1
PROTOCOL_VERSION_MINOR == 0
CMD_PING == 1
CMD_WRITE_MEM == 32
CMD_READ_MEM == 33

\* MALLOC_CAP_SPIRAM | MALLOC_CAP_8BIT, the default of load and of pack.
DefaultCaps == MALLOC_CAP_SPIRAM + MALLOC_CAP_8BIT

(* Addresses the device heap can hand out: 128-byte granules, so that a    *)
(* 128-byte record and the next one are adjacent.                          *)
DeviceAddrs == {128 * i : i \in 0..(NumAddrs - 1)}

AllocSizes == {16, 128}
\* Accesses at the first two granules, at their start and 12 bytes in.
AccessAddrs == {0, 12, 128, 140}
AccessLens == {0, 8, 128}
\* The accesses tried: bounds-checked ones, and skip_bounds accesses to
\* memory outside the table of exactly one chunk, of a little more, and of
\* more than two chunks.
Accesses ==
    {[addr |-> a, size |-> n, skip |-> FALSE] : a \in AccessAddrs, n \in AccessLens}
    \cup {[addr |-> 12, size |-> n, skip |-> TRUE] :
              n \in {CHUNK_SIZE, CHUNK_SIZE + 16, 2 * CHUNK_SIZE + 1}}
\* Which exchange of a chunked write fails, and how: <<0, "ok">> is none.
WriteFaults == {<<0, "ok">>} \cup ((1..2) \X {"deverr", "timeout"})
\* Capabilities asked for: the default, which lacks MALLOC_CAP_EXEC, and
\* executable byte-addressable memory.
CapsSet == {DefaultCaps, MALLOC_CAP_EXEC + MALLOC_CAP_8BIT}
\* The allocate requests tried: both sizes with the default capabilities,
\* the small size also as executable memory.
AllocRequests ==
    {q \in [size : AllocSizes, caps : CapsSet] :
        q.caps = DefaultCaps \/ q.size = 16}
\* How an exchange on an open link ends.
Outcomes == {"ok", "deverr", "timeout"}

\* Two sessions of the process and the serial port they use. The allocation
\* table, the handle and the operations on them are those of session "A".
Sessions == {"A", "B"}
Ports == {"P"}
NoInfo == [known |-> FALSE]
\* A DeviceManager after __init__ (JITSession.__init__ gives it no port).
NewSession ==
    [port |-> "none", serial |-> "none", on |-> "none", device_info |-> NoInfo]

NoCall == [kind |-> "none"]
NoHandle == [valid |-> FALSE, loaded |-> FALSE]
EmptyTable == [a \in {} |-> 0]

----------------------------------------------------------------------------
(* Transport *)

Frame(cmd, addr, size) == [cmd |-> cmd, addr |-> addr, size |-> size]

\* The exception _send_packet raises for an exchange that ended with outcome o.
send_packet(o) ==
    CASE o = "ok" -> "none"
      [] o = "closed" -> "Disconnected"
      [] o = "deverr" -> "DeviceError"
      [] OTHER -> "Timeout"

\* The frames of an exchange that got onto the link: none when the link is
\* not open ("closed"), where _send_packet raises before it writes.
Written(o, frames) == IF o = "closed" THEN <<>> ELSE frames

Result(raised, table, frames, ret) ==
    [raised |-> raised, allocations |-> table, wire |-> frames, ret |-> ret]

----------------------------------------------------------------------------
(* Framing: the bytes of one exchange *)

MAGIC == <<165, 90>>

\* struct.pack('<I', n) and '<H' for k = 4 and 2; struct.unpack.
LE(n, k) == [i \in 1..k |-> (n \div (256 ^ (i - 1))) % 256]
RECURSIVE FromLE(_)
FromLE(bytes) ==
    IF bytes = <<>> THEN 0 ELSE Head(bytes) + 256 * FromLE(Tail(bytes))

\* sum(bytes)
RECURSIVE SumTo(_, _)
SumTo(bytes, n) == IF n = 0 THEN 0 ELSE bytes[n] + SumTo(bytes, n - 1)
Sum(bytes) == SumTo(bytes, Len(bytes))

\* The checksum of a header and a payload: the byte sum & 0xFFFF.
checksum(header, payload) == (Sum(header) + Sum(payload)) % 65536

\* The request frame with the payload length packed big-endian.
request_frame_big_endian(cmd_id, payload) ==
    LET len == LE(Len(payload), 4)
        header == MAGIC \o <<cmd_id, 0>> \o <<len[4], len[3], len[2], len[1]>>
    IN header \o payload \o LE(checksum(header, payload), 2)

\* The bytes _send_packet writes: header, payload, checksum.
request_frame(cmd_id, payload) ==
    LET header == MAGIC \o <<cmd_id, 0>> \o LE(Len(payload), 4)
    IN header \o payload \o LE(checksum(header, payload), 2)

\* serial.read(n) at position pos of the bytes rx that arrive before the
\* read times out: fewer than n bytes when rx ends early.
Read(rx, pos, n) ==
    SubSeq(rx, pos, IF pos + n - 1 <= Len(rx) THEN pos + n - 1 ELSE Len(rx))

\* The error packet branch: struct.unpack('<I', resp_payload) takes a buffer
\* of exactly 4 bytes and raises struct.error for a longer one; a payload
\* shorter than 4 bytes gives the code -1.
error_packet(resp_payload) ==
    IF Len(resp_payload) < 4
    THEN [raised |-> "DeviceError", ret |-> <<>>, code |-> -1]
    ELSE IF Len(resp_payload) = 4
    THEN [raised |-> "DeviceError", ret |-> <<>>, code |-> FromLE(resp_payload)]
    ELSE [raised |-> "StructError", ret |-> <<>>, code |-> 0]

\* The response side of _send_packet with the error flag looked at before
\* the checksum.
read_response_flags_first(cmd_id, rx) ==
    LET magic == Read(rx, 1, 2)
        resp_header_data == Read(rx, 3, 6)
        resp_cmd == resp_header_data[1]
        resp_flags == resp_header_data[2]
        resp_len == FromLE(SubSeq(resp_header_data, 3, 6))
        resp_payload == IF resp_len > 0 THEN Read(rx, 9, resp_len) ELSE <<>>
        resp_checksum_data == Read(rx, 9 + resp_len, 2)
        Fail(e) == [raised |-> e, ret |-> <<>>, code |-> 0]
    IN IF Len(magic) < 2 THEN Fail("Timeout")
       ELSE IF magic # MAGIC THEN Fail("BadMagic")
       ELSE IF Len(resp_header_data) < 6 THEN Fail("Timeout")
       ELSE IF resp_cmd # cmd_id THEN Fail("CommandMismatch")
       ELSE IF resp_len > 0 /\ Len(resp_payload) # resp_len THEN Fail("Timeout")
       ELSE IF Len(resp_checksum_data) < 2 THEN Fail("Timeout")
       ELSE IF resp_flags = 2
       THEN error_packet(resp_payload)
       ELSE IF checksum(MAGIC \o resp_header_data, resp_payload)
                 # FromLE(resp_checksum_data)
       THEN Fail("ChecksumMismatch")
       ELSE [raised |-> "none", ret |-> resp_payload, code |-> 0]

\* The response side of _send_packet: read magic, header, payload and
\* checksum from rx, then validate. Yields the exception, the payload
\* returned and the code of an error frame.
read_response(cmd_id, rx) ==
    LET magic == Read(rx, 1, 2)
        resp_header_data == Read(rx, 3, 6)
        resp_cmd == resp_header_data[1]
        resp_flags == resp_header_data[2]
        resp_len == FromLE(SubSeq(resp_header_data, 3, 6))
        resp_payload == IF resp_len > 0 THEN Read(rx, 9, resp_len) ELSE <<>>
        resp_checksum_data == Read(rx, 9 + resp_len, 2)
        Fail(e) == [raised |-> e, ret |-> <<>>, code |-> 0]
    IN IF Len(magic) < 2 THEN Fail("Timeout")
       ELSE IF magic # MAGIC THEN Fail("BadMagic")
       ELSE IF Len(resp_header_data) < 6 THEN Fail("Timeout")
       ELSE IF resp_cmd # cmd_id THEN Fail("CommandMismatch")
       ELSE IF resp_len > 0 /\ Len(resp_payload) # resp_len THEN Fail("Timeout")
       ELSE IF Len(resp_checksum_data) < 2 THEN Fail("Timeout")
       ELSE IF checksum(MAGIC \o resp_header_data, resp_payload)
                 # FromLE(resp_checksum_data)
       THEN Fail("ChecksumMismatch")
       ELSE IF resp_flags = 2
       THEN error_packet(resp_payload)
       ELSE [raised |-> "none", ret |-> resp_payload, code |-> 0]

\* _send_packet on a link that is open or not, with rx the bytes the device
\* sends back: the exception, the bytes written, the payload returned.
_send_packet(cmd_id, payload, is_open, rx) ==
    IF ~is_open
    THEN [raised |-> "Disconnected", written |-> <<>>, ret |-> <<>>, code |-> 0]
    ELSE LET r == read_response(cmd_id, rx)
         IN [raised |-> r.raised, written |-> request_frame(cmd_id, payload),
             ret |-> r.ret, code |-> r.code]

\* A frame as the device sends it: the framing of the requests, with flags.
Encode(cmd_id, flags, payload) ==
    LET header == MAGIC \o <<cmd_id, flags>> \o LE(Len(payload), 4)
    IN header \o payload \o LE((Sum(header) + Sum(payload)) % 65536, 2)

\* Requests: a PING, a READ_MEM of 4 bytes at 0x80, a WRITE_MEM whose bytes
\* sum to more than 2^16.
Requests ==
    {[cmd_id |-> CMD_PING, payload |-> <<202, 254, 186, 190>>],
     [cmd_id |-> CMD_READ_MEM, payload |-> <<128, 0, 0, 0, 4, 0, 0, 0>>],
     [cmd_id |-> CMD_WRITE_MEM, payload |-> [i \in 1..BigLen |-> 255]]}

\* Bytes of response payloads, and bytes that replace one in transit. The
\* fourth payload byte and the altered bytes stay below 128: an error code
\* and a declared length are then below 2^31.
PayloadBytes == {0, 1, 255}
TamperBytes == {0, 2, 3, 127}
ResponsePayloads ==
    {q \in UNION {[1..n -> PayloadBytes] : n \in 0..MaxPayloadLen} :
        Len(q) < 4 \/ q[4] < 128}

\* Payloads of the responses to a command: WRITE_MEM is answered with an
\* empty payload or a 4-byte error code, PING and READ_MEM with any bytes.
Replies(cmd_id) ==
    IF cmd_id = CMD_WRITE_MEM THEN {<<>>, <<1, 0, 0, 0>>} ELSE ResponsePayloads

\* An error payload whose prefix is the 32-bit code 258, one byte longer.
LongError == <<2, 1, 0, 0, 7>>

\* Well-formed responses to a request: a reply or an error frame.
Responses(cmd_id) ==
    {Encode(cmd_id, f, q) : f \in {0, 2}, q \in Replies(cmd_id)}
    \cup {Encode(cmd_id, 2, LongError)}

\* What the device sends back in one exchange: a well-formed response, also
\* one to another command or with other flag bits; the request echoed; a
\* response cut short; a response with one byte altered in transit.
ResponseCases(cmd_id, payload) ==
    {[kind |-> "plain", frame |-> fr, at |-> 0, rx |-> fr] :
        fr \in Responses(cmd_id)
                \cup {Encode(c, f, <<1, 0, 0, 0>>) :
                         c \in {CMD_PING, CMD_READ_MEM}, f \in {0, 1, 2, 3}}}
    \cup {[kind |-> "echo", frame |-> request_frame(cmd_id, payload), at |-> 0,
           rx |-> request_frame(cmd_id, payload)]}
    \cup UNION {{[kind |-> "cut", frame |-> fr, at |-> n, rx |-> SubSeq(fr, 1, n)] :
                    n \in 0..(Len(fr) - 1)} : fr \in Responses(cmd_id)}
    \cup UNION {{[kind |-> "tamper", frame |-> fr, at |-> i[1],
                  rx |-> [fr EXCEPT ![i[1]] = i[2]]] :
                    i \in {j \in (1..Len(fr)) \X TamperBytes : fr[j[1]] # j[2]}} :
                fr \in Responses(cmd_id)}

----------------------------------------------------------------------------
(* Device session (DeviceManager) *)

\* Addresses the device may answer an ALLOC with: aligned, and the range
\* meets no tracked record.
FreshAddrs(table, size, align) ==
    {a \in DeviceAddrs :
        /\ a % align = 0
        /\ \A s \in DOMAIN table : a + size <= s \/ s + table[s].size <= a}

\* What the device and the link can do with one allocate call: the ALLOC
\* exchange fails; or it is answered short, or with a nonzero err (and the
\* HEAP_INFO exchange that follows ends in any way), or with a fresh address.
DeviceAnswers(table, size, align) ==
    {[o |-> o, reply |-> "short", addr |-> 0, oh |-> "ok"] : o \in Outcomes}
    \cup {[o |-> "ok", reply |-> "oom", addr |-> 0, oh |-> oh] : oh \in Outcomes}
    \cup {[o |-> "ok", reply |-> "addr", addr |-> a, oh |-> "ok"] :
             a \in FreshAddrs(table, size, align)}

get_heap_info(o) ==
    Result(send_packet(o), EmptyTable, Written(o, <<Frame("HEAP_INFO", 0, 0)>>), 0)

Track(table, addr, size, caps, align) ==
    [a \in DOMAIN table \cup {addr} |->
        IF a = addr THEN [size |-> size, caps |-> caps, align |-> align]
        ELSE table[a]]

\* allocate that records the address field of a reply whose err is nonzero.
allocate_ignores_err(table, size, caps, align, o, reply, addr, oh) ==
    LET alloc == Frame("ALLOC", 0, size) IN
    IF send_packet(o) # "none"
    THEN Result(send_packet(o), table, Written(o, <<alloc>>), 0)
    ELSE IF reply = "short" THEN Result("InvalidResponse", table, <<alloc>>, 0)
    ELSE IF reply = "oom"
         THEN Result("OutOfDeviceMemory", Track(table, addr, size, caps, align),
                     <<alloc>> \o <<Frame("HEAP_INFO", 0, 0)>>, 0)
    ELSE Result("none", Track(table, addr, size, caps, align), <<alloc>>, addr)

\* allocate that returns the address without recording it.
allocate_untracked(table, size, caps, align, o, reply, addr, oh) ==
    LET alloc == Frame("ALLOC", 0, size) IN
    IF send_packet(o) # "none"
    THEN Result(send_packet(o), table, Written(o, <<alloc>>), 0)
    ELSE IF reply = "short" THEN Result("InvalidResponse", table, <<alloc>>, 0)
    ELSE IF reply = "oom"
         THEN Result("OutOfDeviceMemory", table,
                     <<alloc>> \o <<Frame("HEAP_INFO", 0, 0)>>, 0)
    ELSE Result("none", table, <<alloc>>, addr)

\* o: outcome of the ALLOC exchange; reply: what an answered ALLOC carried;
\* addr: the address in it; oh: outcome of the HEAP_INFO exchange.
allocate(table, size, caps, align, o, reply, addr, oh) ==
    LET alloc == Frame("ALLOC", 0, size) IN
    IF send_packet(o) # "none"
    THEN Result(send_packet(o), table, Written(o, <<alloc>>), 0)
    ELSE IF reply = "short" THEN Result("InvalidResponse", table, <<alloc>>, 0)
    ELSE IF reply = "oom"
         THEN Result("OutOfDeviceMemory", table,
                     <<alloc>> \o get_heap_info(oh).wire, 0)
    ELSE Result("none", Track(table, addr, size, caps, align), <<alloc>>, addr)

\* free that drops the record before the FREE exchange.
free_forgets_on_error(table, address, o) ==
    IF address \notin DOMAIN table
    THEN Result("UnknownAllocation", table, <<>>, 0)
    ELSE Result(send_packet(o),
                [a \in DOMAIN table \ {address} |-> table[a]],
                Written(o, <<Frame("FREE", address, 0)>>), 0)

\* free without the lookup in the table.
free_unchecked(table, address, o) ==
    Result(send_packet(o),
           IF send_packet(o) = "none"
           THEN [a \in DOMAIN table \ {address} |-> table[a]] ELSE table,
           Written(o, <<Frame("FREE", address, 0)>>), 0)

free(table, address, o) ==
    IF address \notin DOMAIN table
    THEN Result("UnknownAllocation", table, <<>>, 0)
    ELSE IF send_packet(o) # "none"
         THEN Result(send_packet(o), table, Written(o, <<Frame("FREE", address, 0)>>), 0)
    ELSE Result("none", [a \in DOMAIN table \ {address} |-> table[a]],
                Written(o, <<Frame("FREE", address, 0)>>), 0)

\* An access that the union of the records covers, as a scan over bytes
\* rather than over records would accept it.
InSomeRecords(table, address, len) ==
    /\ \E start \in DOMAIN table :
           start <= address /\ address <= start + table[start].size
    /\ \E start \in DOMAIN table :
           start <= address + len /\ address + len <= start + table[start].size

\* The validation loop of write_memory and read_memory.
InOneRecord(table, address, len) ==
    \E start \in DOMAIN table :
        start <= address /\ address + len <= start + table[start].size

\* A WRITE_MEM frame: chunk_addr, and the slice data[off : off + size] it
\* carries.
WriteFrame(chunk_addr, off, size) ==
    [cmd |-> "WRITE_MEM", addr |-> chunk_addr, size |-> size, off |-> off]

\* The chunk loop addressing every chunk at the start of the write.
RECURSIVE Chunks_same_addr(_, _, _)
Chunks_same_addr(address, total_len, offset) ==
    IF offset < total_len
    THEN LET chunk_len == IF total_len - offset < CHUNK_SIZE
                          THEN total_len - offset ELSE CHUNK_SIZE
         IN <<WriteFrame(address, offset, chunk_len)>>
              \o Chunks_same_addr(address, total_len, offset + chunk_len)
    ELSE <<>>

\* The chunk loop of write_memory: the WRITE_MEM frames from offset on.
RECURSIVE Chunks(_, _, _)
Chunks(address, total_len, offset) ==
    IF offset < total_len
    THEN LET chunk_len == IF total_len - offset < CHUNK_SIZE
                          THEN total_len - offset ELSE CHUNK_SIZE
         IN <<WriteFrame(address + offset, offset, chunk_len)>>
              \o Chunks(address, total_len, offset + chunk_len)
    ELSE <<>>

\* failAt: index of the chunk whose exchange ends with outcome o # "ok"
\* (0, or an index past the last chunk: every exchange succeeds).
WriteChunks(table, address, len, failAt, o) ==
    LET chunks == Chunks(address, len, 0) IN
    IF failAt \in 1..Len(chunks) /\ send_packet(o) # "none"
    THEN Result(send_packet(o), table,
                SubSeq(chunks, 1, IF o = "closed" THEN failAt - 1 ELSE failAt), 0)
    ELSE Result("none", table, chunks, 0)

write_memory(table, address, len, skip_bounds, failAt, o) ==
    IF ~skip_bounds /\ ~InOneRecord(table, address, len)
    THEN Result("BoundsViolation", table, <<>>, 0)
    ELSE WriteChunks(table, address, len, failAt, o)

read_memory(table, address, size, skip_bounds, o) ==
    IF ~skip_bounds /\ ~InOneRecord(table, address, size)
    THEN Result("BoundsViolation", table, <<>>, 0)
    ELSE Result(send_packet(o), table,
                Written(o, <<Frame("READ_MEM", address, size)>>), 0)

\* execute that accepts only records allocated with MALLOC_CAP_EXEC.
execute_exec_caps_only(table, address, o) ==
    IF ~\E start \in DOMAIN table :
            /\ start <= address /\ address < start + table[start].size
            /\ table[start].caps % 2 = MALLOC_CAP_EXEC
    THEN Result("BoundsViolation", table, <<>>, 0)
    ELSE Result(send_packet(o), table, Written(o, <<Frame("EXEC", address, 0)>>), 0)

\* DeviceManager.execute: the address must lie in some record; the record's
\* caps are not looked at.
execute(table, address, o) ==
    IF ~\E start \in DOMAIN table :
            start <= address /\ address < start + table[start].size
    THEN Result("BoundsViolation", table, <<>>, 0)
    ELSE Result(send_packet(o), table, Written(o, <<Frame("EXEC", address, 0)>>), 0)

----------------------------------------------------------------------------
(* Connecting and disconnecting sessions *)

\* What a device answers GET_INFO with: a reply shorter than 32 bytes, or
\* the protocol version and the max_payload in a full one.
InfoReplies ==
    {[len_ok |-> FALSE, major |-> 1, minor |-> 0, max_payload |-> 4096],
     [len_ok |-> TRUE, major |-> 1, minor |-> 0, max_payload |-> 4096],
     [len_ok |-> TRUE, major |-> 1, minor |-> 1, max_payload |-> 1048576],
     [len_ok |-> TRUE, major |-> 2, minor |-> 0, max_payload |-> 4096],
     [len_ok |-> TRUE, major |-> 0, minor |-> 1, max_payload |-> 1048576]}

\* The info dictionary get_info builds from a reply.
InfoOf(reply) ==
    [known |-> TRUE,
     protocol_version_major |-> reply.major,
     protocol_version_minor |-> reply.minor,
     max_payload_size |-> reply.max_payload]

\* What can happen to one JITSession.connect(port): the port does not open;
\* or it opens and PING is not echoed; or PING is echoed and the GET_INFO
\* exchange fails, or is answered.
ConnectEnvs ==
    {[opened |-> FALSE, ping |-> FALSE, o |-> "ok", reply |-> r] :
        r \in {x \in InfoReplies : ~x.len_ok}}
    \cup {[opened |-> TRUE, ping |-> FALSE, o |-> "ok", reply |-> r] :
        r \in {x \in InfoReplies : ~x.len_ok}}
    \cup {[opened |-> TRUE, ping |-> TRUE, o |-> o, reply |-> r] :
        o \in {"deverr", "timeout"}, r \in {x \in InfoReplies : ~x.len_ok}}
    \cup {[opened |-> TRUE, ping |-> TRUE, o |-> "ok", reply |-> r] : r \in InfoReplies}

\* get_info that also refuses a protocol minor other than the host's.
get_info_checks_minor(o, reply) ==
    IF send_packet(o) # "none" THEN [raised |-> send_packet(o), info |-> NoInfo]
    ELSE IF ~reply.len_ok THEN [raised |-> "InvalidResponse", info |-> NoInfo]
    ELSE IF reply.major # PROTOCOL_VERSION_MAJOR
            \/ reply.minor # PROTOCOL_VERSION_MINOR
         THEN [raised |-> "IncompatibleProtocol", info |-> NoInfo]
    ELSE [raised |-> "none", info |-> InfoOf(reply)]

\* get_info: the exception, and the info stored in device_info on success.
\* A minor below the host's only logs a warning.
get_info(o, reply) ==
    IF send_packet(o) # "none" THEN [raised |-> send_packet(o), info |-> NoInfo]
    ELSE IF ~reply.len_ok THEN [raised |-> "InvalidResponse", info |-> NoInfo]
    ELSE IF reply.major # PROTOCOL_VERSION_MAJOR
         THEN [raised |-> "IncompatibleProtocol", info |-> NoInfo]
    ELSE [raised |-> "none", info |-> InfoOf(reply)]

\* DeviceManager.disconnect of session s: close an open port and drop the
\* registry entry if it is this session's.
disconnect(d, reg, s) ==
    IF d[s].serial = "open"
    THEN [dm |-> [d EXCEPT ![s].serial = "closed"],
          reg |-> IF d[s].port \in DOMAIN reg /\ reg[d[s].port] = s
                  THEN [p \in DOMAIN reg \ {d[s].port} |-> reg[p]]
                  ELSE reg]
    ELSE [dm |-> d, reg |-> reg]

\* connect that opens the port without looking at the registry.
connect_no_takeover(d, reg, s, opened) ==
    IF d[s].port = "none" THEN [dm |-> d, reg |-> reg, raised |-> "none"]
    ELSE IF ~opened THEN [dm |-> d, reg |-> reg, raised |-> "OpenFailed"]
    ELSE [dm |-> [d EXCEPT ![s].serial = "open", ![s].on = d[s].port],
          reg |-> [p \in DOMAIN reg \cup {d[s].port} |->
                      IF p = d[s].port THEN s ELSE reg[p]],
          raised |-> "none"]

\* DeviceManager.connect of session s: disconnect another session that the
\* registry has on the port, open the port (opened: whether serial.Serial
\* succeeds), register.
connect(d, reg, s, opened) ==
    IF d[s].port = "none" THEN [dm |-> d, reg |-> reg, raised |-> "none"]
    ELSE LET port == d[s].port
             forced == IF port \in DOMAIN reg /\ reg[port] # s
                       THEN disconnect(d, reg, reg[port])
                       ELSE [dm |-> d, reg |-> reg]
         IN IF ~opened
            THEN [dm |-> forced.dm, reg |-> forced.reg, raised |-> "OpenFailed"]
            ELSE [dm |-> [forced.dm EXCEPT ![s].serial = "open", ![s].on = port],
                  reg |-> [p \in DOMAIN forced.reg \cup {port} |->
                              IF p = port THEN s ELSE forced.reg[p]],
                  raised |-> "none"]

\* JITSession.connect(port) of session s in environment e.
session_connect(d, reg, s, port, e) ==
    LET c == connect([d EXCEPT ![s].port = port], reg, s, e.opened)
        gi == get_info(e.o, e.reply)
        closed == disconnect(c.dm, c.reg, s)
        ping == <<Frame("PING", 0, 4)>>
    IN IF c.raised # "none"
       THEN [dm |-> c.dm, reg |-> c.reg, raised |-> c.raised, wire |-> <<>>]
       ELSE IF ~e.ping
       THEN [dm |-> closed.dm, reg |-> closed.reg, raised |-> "NoPingResponse",
             wire |-> ping]
       ELSE IF gi.raised # "none"
       THEN [dm |-> closed.dm, reg |-> closed.reg, raised |-> gi.raised,
             wire |-> ping \o <<Frame("GET_INFO", 0, 0)>>]
       ELSE [dm |-> [c.dm EXCEPT ![s].device_info = gi.info], reg |-> c.reg,
             raised |-> "none", wire |-> ping \o <<Frame("GET_INFO", 0, 0)>>]

\* The lists serial.tools.list_ports.comports() returns: no port, one
\* port, two ports in either order.
PortLists == {<<>>, <<"P">>, <<"P", "Q">>, <<"Q", "P">>}

\* JITSession.connect() without a port: probe the ports in list order;
\* envs[k] is what happens to the probe of the k-th port. A probe whose
\* PING is not echoed disconnects; one that raises (the port does not open,
\* get_info raises) is logged by the except clause, which disconnects; the
\* loop then goes on to the next port. The first port that is pinged and
\* passes get_info is kept. Yields the sessions, the registry, the
\* exception, the frames and the ports probed.
RECURSIVE session_autodetect(_, _, _, _, _)
session_autodetect(d, reg, s, ports, envs) ==
    IF ports = <<>>
    THEN [dm |-> d, reg |-> reg, raised |-> "NoDeviceFound", wire |-> <<>>,
          probed |-> <<>>]
    ELSE LET e == Head(envs)
             c == connect([d EXCEPT ![s].port = Head(ports)], reg, s, e.opened)
             gi == get_info(e.o, e.reply)
             closed == disconnect(c.dm, c.reg, s)
             ping == <<Frame("PING", 0, 4)>>
             frames == IF c.raised # "none" THEN <<>>
                       ELSE IF ~e.ping THEN ping
                       ELSE ping \o <<Frame("GET_INFO", 0, 0)>>
         IN IF c.raised = "none" /\ e.ping /\ gi.raised = "none"
            THEN [dm |-> [c.dm EXCEPT ![s].device_info = gi.info],
                  reg |-> c.reg, raised |-> "none", wire |-> frames,
                  probed |-> <<Head(ports)>>]
            ELSE LET rest == session_autodetect(closed.dm, closed.reg, s,
                                                Tail(ports), Tail(envs))
                 IN [dm |-> rest.dm, reg |-> rest.reg, raised |-> rest.raised,
                     wire |-> frames \o rest.wire,
                     probed |-> <<Head(ports)>> \o rest.probed]

----------------------------------------------------------------------------
(* What the link of a session lets its exchanges do *)

SessionOutcomes(s) == IF dm[s].serial = "open" THEN Outcomes ELSE {"closed"}
LinkOpen == dm["A"].serial = "open"
LinkOutcomes == SessionOutcomes("A")
\* How the sync of one tracked array ends: as its READ_MEM exchange does,
\* or, the read answered, with the copy into the host array raising.
SyncOutcomes == LinkOutcomes \cup (IF LinkOpen THEN {"copy_error"} ELSE {})
LinkWriteFaults == IF LinkOpen THEN WriteFaults ELSE {<<1, "closed">>}
LinkAnswers(table, size, align) ==
    IF LinkOpen THEN DeviceAnswers(table, size, align)
    ELSE {[o |-> "closed", reply |-> "short", addr |-> 0, oh |-> "closed"]}

----------------------------------------------------------------------------
(* Bookkeeping of what a successful allocate returned and free took *)

LiveAfterAllocate(l, r) == IF r.raised = "none" THEN l \cup {r.ret} ELSE l
LiveAfterFree(l, r, address) == IF r.raised = "none" THEN l \ {address} ELSE l

----------------------------------------------------------------------------
\* Two sessions after JITSession.__init__, and the registry of a new process.
Unconnected ==
    [dm |-> [s \in Sessions |-> NewSession], reg |-> [p \in {} |-> "A"]]

\* The sessions after P4JIT.__init__ of session "A" connected it to a device
\* with the host's protocol version.
Connected ==
    session_connect(Unconnected.dm, Unconnected.reg, "A", "P",
        [opened |-> TRUE, ping |-> TRUE, o |-> "ok",
         reply |-> [len_ok |-> TRUE, major |-> PROTOCOL_VERSION_MAJOR,
                    minor |-> PROTOCOL_VERSION_MINOR, max_payload |-> 1048576]])

\* The state after P4JIT.__init__: session "A" connected, nothing allocated.
Init ==
    /\ allocations = EmptyTable
    /\ handle = NoHandle
    /\ pc = "idle"
    /\ call = NoCall
    /\ op = [name |-> "none"]
    /\ wire = <<>>
    /\ err = "none"
    /\ before = EmptyTable
    /\ live = {}
    /\ dm = Connected.dm
    /\ _active_connections = Connected.reg

\* The session's user calls DeviceManager.allocate.
Allocate ==
    /\ UNCHANGED link
    /\ pc = "idle"
    /\ \E q \in AllocRequests :
        \E d \in LinkAnswers(allocations, q.size, 16) :
            LET size == q.size
                caps == q.caps
                r == allocate(allocations, size, caps, 16,
                              d.o, d.reply, d.addr, d.oh) IN
            /\ allocations' = r.allocations
            /\ wire' = r.wire
            /\ err' = r.raised
            /\ op' = [name |-> "allocate", addr |-> r.ret, size |-> size,
                      skip |-> FALSE, reply |-> d.reply, o |-> d.o, oh |-> d.oh]
            /\ live' = LiveAfterAllocate(live, r)
    /\ before' = allocations
    /\ call' = NoCall
    /\ pc' = "done"
    /\ UNCHANGED handle

\* The session's user calls DeviceManager.free.
Free ==
    /\ UNCHANGED link
    /\ pc = "idle"
    /\ \E address \in DeviceAddrs, o \in LinkOutcomes :
        LET r == free(allocations, address, o) IN
        /\ allocations' = r.allocations
        /\ wire' = r.wire
        /\ err' = r.raised
        /\ op' = [name |-> "free", addr |-> address, size |-> 0, skip |-> FALSE,
                  o |-> IF address \in DOMAIN allocations THEN o ELSE "ok"]
        /\ live' = LiveAfterFree(live, r, address)
    /\ before' = allocations
    /\ call' = NoCall
    /\ pc' = "done"
    /\ UNCHANGED handle

\* The session's user calls DeviceManager.write_memory.
WriteMemory ==
    /\ UNCHANGED link
    /\ pc = "idle"
    /\ \E a \in Accesses, f \in LinkWriteFaults :
        LET r == write_memory(allocations, a.addr, a.size, a.skip, f[1], f[2]) IN
        /\ allocations' = r.allocations
        /\ wire' = r.wire
        /\ err' = r.raised
        /\ op' = [name |-> "write_memory", addr |-> a.addr, size |-> a.size,
                  skip |-> a.skip]
    /\ before' = allocations
    /\ call' = NoCall
    /\ pc' = "done"
    /\ UNCHANGED <<handle, live>>

\* The session's user calls DeviceManager.read_memory.
ReadMemory ==
    /\ UNCHANGED link
    /\ pc = "idle"
    /\ \E a \in Accesses, o \in LinkOutcomes :
        LET r == read_memory(allocations, a.addr, a.size, a.skip, o) IN
        /\ allocations' = r.allocations
        /\ wire' = r.wire
        /\ err' = r.raised
        /\ op' = [name |-> "read_memory", addr |-> a.addr, size |-> a.size,
                  skip |-> a.skip]
    /\ before' = allocations
    /\ call' = NoCall
    /\ pc' = "done"
    /\ UNCHANGED <<handle, live>>

\* The session's user calls DeviceManager.execute.
Execute ==
    /\ UNCHANGED link
    /\ pc = "idle"
    /\ \E address \in AccessAddrs, o \in LinkOutcomes :
        LET r == execute(allocations, address, o) IN
        /\ allocations' = r.allocations
        /\ wire' = r.wire
        /\ err' = r.raised
        /\ op' = [name |-> "execute", addr |-> address, size |-> 0,
                  skip |-> FALSE]
    /\ before' = allocations
    /\ call' = NoCall
    /\ pc' = "done"
    /\ UNCHANGED <<handle, live>>

----------------------------------------------------------------------------
(* Signatures, arguments and builds *)

Pointer == [category |-> "pointer", is64 |-> FALSE]
Value32 == [category |-> "value", is64 |-> FALSE]
Value64 == [category |-> "value", is64 |-> TRUE]

\* The functions that get loaded: int f(int32_t*, int), void g(float*, float*),
\* int64_t h(int64_t).
Signatures ==
    {[parameters |-> <<Pointer, Value32>>, return_type |-> "int"],
     [parameters |-> <<Pointer, Pointer>>, return_type |-> "void"],
     [parameters |-> <<Value64>>, return_type |-> "int64_t"]}

\* Host arguments: an array of the parameter's dtype, an array whose dtype
\* has another item size, a NumPy scalar.
ArgKinds == {"ndarray", "ndarray_mismatch", "scalar"}
ArgLists == UNION {[1..n -> ArgKinds] : n \in 0..MaxArgs}

\* total_size of a pass-1 build, and the blob length of the pass-2 build
\* after it: the same, grown to the safety padding, grown past it.
BuildSizes == {16, 64}
Pass2Sizes(size1) == {size1, size1 + SAFETY_PADDING, size1 + SAFETY_PADDING + 4}

\* The types of two slots: the marshaller's _64BIT_TYPES, and the metadata
\* generator's, which lists the same names.
_64BIT_TYPES ==
    {"int64_t", "uint64_t", "int64", "uint64", "double", "long long",
     "unsigned long long", "long long int", "unsigned long long int"}
\* type_str.replace('const', '').replace('volatile', '').strip()
clean_type(type_str) ==
    CASE type_str = "const double" -> "double"
      [] type_str = "volatile int64_t" -> "int64_t"
      [] OTHER -> type_str
_is_64bit_type(type_str) == clean_type(type_str) \in _64BIT_TYPES

----------------------------------------------------------------------------
(* Wrapper build and metadata (WrapperBuilder, MetadataGenerator) *)

\* Signatures handed to build_with_wrapper and the configured
\* wrapper.args_array_size values it is run with.
ParamLists == UNION {[1..n -> {Pointer, Value32, Value64}] : n \in 0..MaxParams}
ReturnTypes == {"void", "int", "float", "int64_t", "double"}
SlotCapacities == 2..MaxSlots
\* The arg_address of a pass-1 build and one of a pass-2 build.
ArgBases == {0, 128}

\* A slot count of 1 for every parameter.
slot_count_one(param) == 1

\* The slot count calculate_addresses gives a parameter.
slot_count(param) ==
    IF param.category = "pointer" THEN 1
    ELSE IF param.is64 THEN 2
    ELSE 1

\* current_slot when the loop of calculate_addresses reaches parameter idx.
RECURSIVE current_slot(_, _)
current_slot(parameters, idx) ==
    IF idx = 1 THEN 0
    ELSE current_slot(parameters, idx - 1) + slot_count(parameters[idx - 1])

\* MetadataGenerator.calculate_addresses: the slot and address of every
\* argument and of the return value.
calculate_addresses(parameters, return_type, arg_address, args_array_size) ==
    LET return_slot_count == IF _is_64bit_type(return_type) THEN 2 ELSE 1
        return_slot == args_array_size - return_slot_count
    IN [arguments |->
            [idx \in 1..Len(parameters) |->
                [index |-> idx - 1,
                 slot |-> current_slot(parameters, idx),
                 slot_count |-> slot_count(parameters[idx]),
                 address |-> arg_address + current_slot(parameters, idx) * 4]],
        return |-> [type |-> return_type,
                    slot |-> return_slot,
                    slot_count |-> return_slot_count,
                    address |-> arg_address + return_slot * 4]]

\* WrapperBuilder.build_with_wrapper for a parsed signature: the argument
\* count validation, then the metadata attached to the binary.
build_with_wrapper(parameters, return_type, arg_address, args_array_size) ==
    LET max_args == args_array_size - 1
        param_count == Len(parameters)
    IN IF param_count > max_args
       THEN [raised |-> "SignatureTooWide", metadata |-> <<>>]
       ELSE [raised |-> "none",
             metadata |-> calculate_addresses(parameters, return_type,
                                              arg_address, args_array_size)]

----------------------------------------------------------------------------
(* Build output (Builder.build, BinaryProcessor.pad_bss, Validator) *)

\* Section tables extract_sections reads from the ELF of a build at base
\* address 64: .text at the base or 4 bytes below it, alone or followed by
\* a .bss right after it or after an alignment gap.
Section(name, type, address, size) ==
    [name |-> name, type |-> type, address |-> address, size |-> size]
SectionTables ==
    {<<Section(".text", "PROGBITS", a, 8)>> : a \in {60, 64}}
    \cup {<<Section(".text", "PROGBITS", a, 8), Section(".bss", "NOBITS", b, n)>> :
            a \in {60, 64}, b \in {72, 80}, n \in {4, 8}}
\* Lengths of the flat binary extract_binary returns, and the configured
\* memory.max_size values.
RawLens == {8, 10, 12}
MaxSizes == {12, 1024}

\* sum(s['size'] for s in sections.values() if s['type'] == 'NOBITS')
RECURSIVE bss_size(_)
bss_size(sections) ==
    IF sections = <<>> THEN 0
    ELSE (IF Head(sections).type = "NOBITS" THEN Head(sections).size ELSE 0)
            + bss_size(Tail(sections))

\* The size total validate_output adds up.
RECURSIVE sections_size(_)
sections_size(sections) ==
    IF sections = <<>> THEN 0
    ELSE Head(sections).size + sections_size(Tail(sections))

\* len(pad_bss(binary_data, sections)): the flat binary padded to a
\* multiple of 4, then by the size of the NOBITS sections.
pad_bss(len, sections) ==
    LET alignment_padding == (4 - (len % 4)) % 4
    IN len + alignment_padding + bss_size(sections)

\* Validator.validate_output: the ValueError of a section below the base
\* address or of section sizes that add up to more than max_size. The
\* length of the binary is not handed to it.
validate_output(sections, base_address, max_size) ==
    IF \E i \in 1..Len(sections) : sections[i].address < base_address
    THEN "BuildInvariant"
    ELSE IF sections_size(sections) > max_size THEN "BuildInvariant"
    ELSE "none"

\* The end of Builder.build: pad the binary, look up the entry point,
\* validate, return the BinaryObject, whose total_size is the length of the
\* padded binary.
builder_build(sections, base_address, raw_len, entry_found, max_size) ==
    LET total_size == pad_bss(raw_len, sections)
        v == validate_output(sections, base_address, max_size)
    IN IF ~entry_found
       THEN [raised |-> "BuildInvariant", artifact |-> FALSE, total_size |-> 0]
       ELSE IF v # "none"
       THEN [raised |-> v, artifact |-> FALSE, total_size |-> 0]
       ELSE [raised |-> "none", artifact |-> TRUE, total_size |-> total_size]

----------------------------------------------------------------------------
(* Argument marshaller (SmartArgs) *)

\* cleanup that clears its lists without freeing.
cleanup_frees_nothing(table, allocs, outs) ==
    [allocations |-> table, wire |-> <<>>, freed |-> {}]

\* cleanup with one try block around the loop: the first free that fails
\* ends the frees.
RECURSIVE cleanup_stops_at_failure(_, _, _)
cleanup_stops_at_failure(table, allocs, outs) ==
    IF allocs = <<>>
    THEN [allocations |-> table, wire |-> <<>>, freed |-> {}]
    ELSE LET r == free(table, Head(allocs), Head(outs))
             rest == IF r.raised = "none"
                     THEN cleanup_stops_at_failure(r.allocations, Tail(allocs),
                                                   Tail(outs))
                     ELSE [allocations |-> r.allocations, wire |-> <<>>,
                           freed |-> {}]
         IN [allocations |-> rest.allocations,
             wire |-> r.wire \o rest.wire,
             freed |-> (IF r.raised = "none" THEN {Head(allocs)} ELSE {})
                         \cup rest.freed]

\* The frees of cleanup, in list order; outs[k] is the outcome of the k-th
\* FREE exchange. Yields the table, the frames and the addresses freed.
RECURSIVE cleanup(_, _, _)
cleanup(table, allocs, outs) ==
    IF allocs = <<>>
    THEN [allocations |-> table, wire |-> <<>>, freed |-> {}]
    ELSE LET r == free(table, Head(allocs), Head(outs))
             rest == cleanup(r.allocations, Tail(allocs), Tail(outs))
         IN [allocations |-> rest.allocations,
             wire |-> r.wire \o rest.wire,
             freed |-> (IF r.raised = "none" THEN {Head(allocs)} ELSE {})
                         \cup rest.freed]

\* sync_back that gives up at the first array whose sync fails.
RECURSIVE sync_back_stops_at_failure(_, _, _, _)
sync_back_stops_at_failure(table, sync_enabled, tracked, outs) ==
    IF ~sync_enabled \/ tracked = <<>>
    THEN [wire |-> <<>>, copied |-> <<>>]
    ELSE LET r == read_memory(table, Head(tracked).addr, Head(tracked).size,
                              FALSE, IF Head(outs) = "copy_error" THEN "ok"
                                     ELSE Head(outs))
             ok == r.raised = "none" /\ Head(outs) # "copy_error"
             rest == IF ok
                     THEN sync_back_stops_at_failure(table, sync_enabled,
                                                     Tail(tracked), Tail(outs))
                     ELSE [wire |-> <<>>, copied |-> <<>>]
         IN [wire |-> r.wire \o rest.wire, copied |-> <<ok>> \o rest.copied]

\* sync_back over the tracked arrays: the READ_MEM of each, and whether the
\* host array was overwritten with what was read. outs[k] is how the k-th
\* step ends: the outcome of its exchange, or "copy_error" when the read is
\* answered and np.frombuffer/np.copyto raises. A failing step is logged.
RECURSIVE sync_back(_, _, _, _)
sync_back(table, sync_enabled, tracked, outs) ==
    IF ~sync_enabled \/ tracked = <<>>
    THEN [wire |-> <<>>, copied |-> <<>>]
    ELSE LET r == read_memory(table, Head(tracked).addr, Head(tracked).size,
                              FALSE, IF Head(outs) = "copy_error" THEN "ok"
                                     ELSE Head(outs))
             ok == r.raised = "none" /\ Head(outs) # "copy_error"
             rest == sync_back(table, sync_enabled, Tail(tracked), Tail(outs))
         IN [wire |-> r.wire \o rest.wire, copied |-> <<ok>> \o rest.copied]

\* get_return_value: the read of the trailing slot(s) of the args array.
get_return_value(table, return_type, args_addr, o) ==
    IF return_type = "void" THEN Result("none", table, <<>>, 0)
    ELSE IF _is_64bit_type(return_type)
         THEN read_memory(table, args_addr + 30 * 4, 8, FALSE, o)
    ELSE read_memory(table, args_addr + 31 * 4, 4, FALSE, o)

\* _handle_pointer that records the address only after the write.
handle_pointer_appends_late(table, allocs, tracked, sync_enabled, arg, d, f) ==
    IF arg # "ndarray"
    THEN [raised |-> "TypeMismatch", allocations |-> table, wire |-> <<>>,
          allocs |-> allocs, tracked |-> tracked, got |-> <<>>]
    ELSE LET ra == allocate(table, ArrayBytes, DefaultCaps, 16,
                            d.o, d.reply, d.addr, d.oh)
             rw == write_memory(ra.allocations, ra.ret, ArrayBytes, FALSE, f[1], f[2])
         IN IF ra.raised # "none"
            THEN [raised |-> ra.raised, allocations |-> table, wire |-> ra.wire,
                  allocs |-> allocs, tracked |-> tracked, got |-> <<>>]
            ELSE IF rw.raised # "none"
            THEN [raised |-> rw.raised, allocations |-> ra.allocations,
                  wire |-> ra.wire \o rw.wire,
                  allocs |-> allocs, tracked |-> tracked,
                  got |-> <<ra.ret>>]
            ELSE [raised |-> "none", allocations |-> ra.allocations,
                  wire |-> ra.wire \o rw.wire,
                  allocs |-> Append(allocs, ra.ret),
                  tracked |-> IF sync_enabled
                              THEN Append(tracked, [addr |-> ra.ret, size |-> ArrayBytes])
                              ELSE tracked,
                  got |-> <<ra.ret>>]

\* _handle_pointer for one argument: type checks, allocate, record the
\* address, write the data, track the array. d: what the device does with
\* the ALLOC; f: the fault of the write. Yields the exception, the table,
\* the frames, the marshaller's lists and the address allocate returned.
handle_pointer(table, allocs, tracked, sync_enabled, arg, d, f) ==
    IF arg # "ndarray"
    THEN [raised |-> "TypeMismatch", allocations |-> table, wire |-> <<>>,
          allocs |-> allocs, tracked |-> tracked, got |-> <<>>]
    ELSE LET ra == allocate(table, ArrayBytes, DefaultCaps, 16,
                            d.o, d.reply, d.addr, d.oh)
             rw == write_memory(ra.allocations, ra.ret, ArrayBytes, FALSE, f[1], f[2])
         IN IF ra.raised # "none"
            THEN [raised |-> ra.raised, allocations |-> table, wire |-> ra.wire,
                  allocs |-> allocs, tracked |-> tracked, got |-> <<>>]
            ELSE IF rw.raised # "none"
            THEN [raised |-> rw.raised, allocations |-> ra.allocations,
                  wire |-> ra.wire \o rw.wire,
                  allocs |-> Append(allocs, ra.ret), tracked |-> tracked,
                  got |-> <<ra.ret>>]
            ELSE [raised |-> "none", allocations |-> ra.allocations,
                  wire |-> ra.wire \o rw.wire,
                  allocs |-> Append(allocs, ra.ret),
                  tracked |-> IF sync_enabled
                              THEN Append(tracked, [addr |-> ra.ret, size |-> ArrayBytes])
                              ELSE tracked,
                  got |-> <<ra.ret>>]

\* _handle_value: the exception and the bytes packed.
handle_value(param, arg) ==
    IF arg # "scalar" THEN [raised |-> "TypeMismatch", bytes |-> 0]
    ELSE [raised |-> "none", bytes |-> IF param.is64 THEN 8 ELSE 4]

----------------------------------------------------------------------------
(* Packing scalar values (SmartArgs._handle_value, struct.pack) *)

\* C types of value parameters; the substring tests of _handle_value on them.
ValueTypes ==
    {"int", "int32_t", "unsigned int", "uint32_t", "int64_t", "uint64_t",
     "float", "double"}
\* 'unsigned' in param_type or 'uint' in param_type
HasUnsigned(param_type) == param_type \in {"unsigned int", "uint32_t", "uint64_t"}
\* 'float' in param_type
HasFloat(param_type) == param_type = "float"
\* 'double' in param_type
HasDouble(param_type) == param_type \in {"double", "const double"}

\* A host integer is its sign and the 8 bytes of its magnitude, low byte
\* first. It fits the signed k-byte range when -2^(8k-1) <= it < 2^(8k-1).
FitsSigned(v, k) ==
    /\ \A i \in (k + 1)..8 : v.mag[i] = 0
    /\ \/ v.mag[k] < 128
       \/ v.neg /\ v.mag[k] = 128 /\ \A i \in 1..(k - 1) : v.mag[i] = 0

\* The k low bytes of the two's complement of a magnitude: every byte
\* inverted, plus one, the carry running while the lower bytes are zero.
TwosComplement(mag, k) ==
    [i \in 1..k |->
        (255 - mag[i] + (IF \A j \in 1..(i - 1) : mag[j] = 0 THEN 1 ELSE 0)) % 256]

\* The k bytes of an integer, little-endian.
IntBytes(v, k) == IF v.neg THEN TwosComplement(v.mag, k) ELSE SubSeq(v.mag, 1, k)

\* struct.pack('<i', n) for k = 4 and '<q' for k = 8: struct.error when n is
\* outside the signed range of the format.
pack_signed(v, k) ==
    IF FitsSigned(v, k) THEN [raised |-> "none", bytes |-> IntBytes(v, k)]
    ELSE [raised |-> "StructError", bytes |-> <<>>]

\* struct.pack('<f', x) and struct.pack('<d', x) for the floats 0.0, 1.0
\* and -2.0.
pack_float(x, k) ==
    CASE x = "0.0" -> [i \in 1..k |-> 0]
      [] x = "1.0" -> [i \in 1..k |-> IF i = k THEN 63
                                      ELSE IF i = k - 1
                                      THEN (IF k = 4 THEN 128 ELSE 240)
                                      ELSE 0]
      [] x = "-2.0" -> [i \in 1..k |-> IF i = k THEN 192 ELSE 0]

\* SmartArgs._handle_value: the exception and the bytes packed for arg.
_handle_value(arg, param_type) ==
    IF _is_64bit_type(param_type)
    THEN IF HasDouble(param_type)
         THEN [raised |-> "none", bytes |-> pack_float(arg, 8)]
         ELSE IF HasUnsigned(param_type)
         THEN [raised |-> "none", bytes |-> IntBytes(arg, 8)]
         ELSE pack_signed(arg, 8)
    ELSE IF HasFloat(param_type)
         THEN [raised |-> "none", bytes |-> pack_float(arg, 4)]
         ELSE pack_signed(arg, 4)

\* Integers around the ends of the k-byte ranges: low byte, middle bytes
\* and top byte chosen apart.
IntsOfWidth(k) ==
    {[neg |-> n,
      mag |-> [i \in 1..8 |-> IF i = 1 THEN lo
                              ELSE IF i = k THEN hi
                              ELSE IF i < k THEN mid ELSE 0]] :
        n \in BOOLEAN, lo \in {0, 1, 255}, mid \in {0, 255},
        hi \in {0, 127, 128, 255}}

\* The values of a C type's range among them.
Values(param_type) ==
    IF HasFloat(param_type) \/ HasDouble(param_type) THEN {"0.0", "1.0", "-2.0"}
    ELSE LET k == IF _is_64bit_type(param_type) THEN 8 ELSE 4
         IN {v \in IntsOfWidth(k) :
                IF HasUnsigned(param_type)
                THEN ~v.neg
                ELSE FitsSigned(v, k) /\ (v.neg => \E i \in 1..8 : v.mag[i] # 0)}

\* Parameters as the signature parser hands them to both the metadata
\* generator and the marshaller: the category and the C type; is64 is the
\* metadata generator's _is_64bit_type of the type.
Param(category, type) ==
    [category |-> category, type |-> type, is64 |-> _is_64bit_type(type)]
PackParams ==
    {Param("pointer", "float*"), Param("value", "int"), Param("value", "float"),
     Param("value", "long long"), Param("value", "const double")}
PackParamLists == UNION {[1..n -> PackParams] : n \in 0..MaxParams}

\* The argument of a call for a parameter: the device address
\* _handle_pointer allocated for an array, the number 1 for a value.
PackArgOf(param) ==
    IF param.category = "pointer" THEN 16
    ELSE IF HasFloat(param.type) \/ HasDouble(param.type) THEN "1.0"
    ELSE [neg |-> FALSE, mag |-> <<1, 0, 0, 0, 0, 0, 0, 0>>]

\* packed_val in the loop of pack: struct.pack('<I', addr) from
\* _handle_pointer, the bytes of _handle_value.
packed_val(param, arg) ==
    IF param.category = "pointer" THEN LE(arg, 4)
    ELSE _handle_value(arg, param.type).bytes

\* The buffer pack returns, buffer += val for every packed value, and the
\* length of the buffer when the value of parameter i is added.
RECURSIVE pack_buffer(_, _)
pack_buffer(parameters, args) ==
    IF parameters = <<>> THEN <<>>
    ELSE packed_val(Head(parameters), Head(args))
            \o pack_buffer(Tail(parameters), Tail(args))
pack_offset(parameters, args, i) ==
    Len(pack_buffer(SubSeq(parameters, 1, i - 1), SubSeq(args, 1, i - 1)))

----------------------------------------------------------------------------
(* Loaded-function handle (JITFunction over RemoteFunction) *)

\* A try block without the finally: a raise leaves the call at once.
NoFinally(raised, next) == IF raised = "none" THEN next ELSE "done"

\* A try body that goes on to execute after a failed args write, and to
\* sync_back after a failed execute.
TryBodyContinues(raised, next) ==
    IF raised = "none" \/ next \in {"execute", "sync_back"} THEN next ELSE "cleanup"

\* The try/finally of RemoteFunction.__call__: where a step of the try body
\* that raised (or not) hands control.
AfterTryStep(raised, next) == IF raised = "none" THEN next ELSE "cleanup"

\* A marshaller left with the default of SmartArgs.__init__, sync_enabled
\* = True.
handler_sync_default(hd) == TRUE

\* SmartArgs(self.dm, self.signature, sync_enabled=self.sync_enabled): the
\* fresh marshaller of a call takes the handle's setting as it is then.
handler_sync(hd) == hd.sync_enabled

\* JITFunction.__call__ without the validity check.
jit_call_unguarded(hd) == "none"

\* JITFunction.__call__: the validity check before the call is delegated.
jit_call_guard(hd) == IF ~hd.valid THEN "FunctionReleased" ELSE "none"

\* JITFunction.free that leaves the valid flag as it was.
jit_free_stays_valid(table, hd, o1, o2) ==
    IF ~hd.valid
    THEN [allocations |-> table, wire |-> <<>>, attempted |-> <<>>,
          freed |-> {}, valid |-> hd.valid]
    ELSE LET r1 == free(table, hd.code_addr, o1)
             r2 == free(r1.allocations, hd.args_addr, o2)
         IN IF r1.raised # "none"
            THEN [allocations |-> r1.allocations, wire |-> r1.wire,
                  attempted |-> <<hd.code_addr>>, freed |-> {}, valid |-> hd.valid]
            ELSE [allocations |-> r2.allocations, wire |-> r1.wire \o r2.wire,
                  attempted |-> <<hd.code_addr, hd.args_addr>>,
                  freed |-> {hd.code_addr}
                            \cup (IF r2.raised = "none" THEN {hd.args_addr} ELSE {}),
                  valid |-> hd.valid]

\* JITFunction.free without the early return on an invalid handle.
jit_free_no_guard(table, hd, o1, o2) ==
    LET r1 == free(table, hd.code_addr, o1)
        r2 == free(r1.allocations, hd.args_addr, o2)
    IN IF r1.raised # "none"
       THEN [allocations |-> r1.allocations, wire |-> r1.wire,
             attempted |-> <<hd.code_addr>>, freed |-> {}, valid |-> FALSE]
       ELSE [allocations |-> r2.allocations, wire |-> r1.wire \o r2.wire,
             attempted |-> <<hd.code_addr, hd.args_addr>>,
             freed |-> {hd.code_addr}
                       \cup (IF r2.raised = "none" THEN {hd.args_addr} ELSE {}),
             valid |-> FALSE]

\* JITFunction.free on handle record hd: the frees sent, in one try block.
\* Yields the table, the frames, the addresses passed to DeviceManager.free,
\* those freed, and the handle's valid flag afterwards.
jit_free(table, hd, o1, o2) ==
    IF ~hd.valid
    THEN [allocations |-> table, wire |-> <<>>, attempted |-> <<>>,
          freed |-> {}, valid |-> FALSE]
    ELSE LET r1 == free(table, hd.code_addr, o1)
             r2 == free(r1.allocations, hd.args_addr, o2)
         IN IF r1.raised # "none"
            THEN [allocations |-> r1.allocations, wire |-> r1.wire,
                  attempted |-> <<hd.code_addr>>, freed |-> {}, valid |-> FALSE]
            ELSE [allocations |-> r2.allocations, wire |-> r1.wire \o r2.wire,
                  attempted |-> <<hd.code_addr, hd.args_addr>>,
                  freed |-> {hd.code_addr}
                            \cup (IF r2.raised = "none" THEN {hd.args_addr} ELSE {}),
                  valid |-> FALSE]

\* The handle's user calls JITFunction.free.
HandleFree ==
    /\ UNCHANGED link
    /\ pc = "idle"
    /\ \E o1 \in LinkOutcomes, o2 \in LinkOutcomes :
        /\ handle.loaded
        /\ LET r == jit_free(allocations, handle, o1, o2) IN
            /\ allocations' = r.allocations
            /\ wire' = r.wire
            /\ handle' = [handle EXCEPT !.valid = r.valid]
            /\ op' = [name |-> "jit_free", was_valid |-> handle.valid,
                      attempted |-> r.attempted]
            /\ live' = live \ r.freed
    /\ err' = "none"
    /\ before' = allocations
    /\ call' = NoCall
    /\ pc' = "done"

\* The handle's user sets JITFunction.sync_arrays.
SetSync ==
    /\ pc = "idle"
    /\ handle.loaded
    /\ \E value \in BOOLEAN :
        /\ handle' = [handle EXCEPT !.sync_enabled = value]
        /\ op' = [name |-> "set_sync", value |-> value]
    /\ wire' = <<>>
    /\ err' = "none"
    /\ before' = allocations
    /\ call' = NoCall
    /\ pc' = "done"
    /\ UNCHANGED <<allocations, live, link>>

\* The handle's user calls it in legacy mode with one bytes argument:
\* write the blob to the args buffer, execute.
RawCall ==
    /\ UNCHANGED link
    /\ pc = "idle"
    /\ \E len \in {8, 4 * ARGS_ARRAY_SIZE + 4}, f \in LinkWriteFaults, o \in LinkOutcomes :
        /\ handle.loaded
        /\ ~handle.smart_args
        /\ LET rw == write_memory(allocations, handle.args_addr, len, FALSE,
                                  f[1], f[2])
               rx == execute(allocations, handle.code_addr, o)
           IN /\ op' = [name |-> "raw_call", was_valid |-> handle.valid]
              /\ IF jit_call_guard(handle) # "none"
                 THEN wire' = <<>> /\ err' = jit_call_guard(handle)
                 ELSE IF rw.raised # "none"
                 THEN wire' = rw.wire /\ err' = rw.raised
                 ELSE wire' = rw.wire \o rx.wire /\ err' = rx.raised
    /\ before' = allocations
    /\ call' = NoCall
    /\ pc' = "done"
    /\ UNCHANGED <<allocations, handle, live>>

\* An arity check that only refuses surplus arguments.
arity_check_at_most(args, parameters) ==
    IF Len(args) > Len(parameters) THEN "ArityMismatch" ELSE "none"

\* The arity check that opens pack.
arity_check(args, parameters) ==
    IF Len(args) # Len(parameters) THEN "ArityMismatch" ELSE "none"

\* The handle's user calls it in smart-args mode: the validity check, the
\* fresh marshaller, and the arity check of pack inside the try block.
CallBegin ==
    /\ UNCHANGED link
    /\ pc = "idle"
    /\ \E args \in ArgLists :
        /\ handle.loaded
        /\ handle.smart_args
        /\ op' = [name |-> "call", was_valid |-> handle.valid,
                  args |-> args, sync |-> handle.sync_enabled]
        /\ IF jit_call_guard(handle) # "none"
           THEN /\ err' = jit_call_guard(handle)
                /\ call' = NoCall
                /\ pc' = "done"
           ELSE LET raised == arity_check(args, handle.signature.parameters)
                IN /\ err' = raised
                   /\ call' = [kind |-> "call", args |-> args, i |-> 1,
                               blob |-> 0, allocs |-> <<>>, tracked |-> <<>>,
                               sync_enabled |-> handler_sync(handle),
                               copied |-> <<>>,
                               got |-> <<>>, steps |-> <<"pack">>,
                               failed_in |-> IF raised = "none" THEN "none" ELSE "pack",
                               free_failed |-> FALSE]
                   /\ pc' = AfterTryStep(raised,
                                IF Len(args) = 0 THEN "write_args" ELSE "pack")
    /\ wire' = <<>>
    /\ before' = allocations
    /\ UNCHANGED <<allocations, handle, live>>

\* pack, one argument: _handle_pointer or _handle_value for argument call.i.
PackArg ==
    /\ UNCHANGED link
    /\ pc = "pack"
    /\ LET hd == handle
           param == hd.signature.parameters[call.i]
           arg == call.args[call.i]
           next == IF call.i < Len(call.args) THEN "pack" ELSE "write_args"
       IN IF param.category = "pointer"
          THEN \E d \in IF arg = "ndarray"
                        THEN DeviceAnswers(allocations, ArrayBytes, 16)
                        ELSE {[o |-> "ok", reply |-> "short", addr |-> 0, oh |-> "ok"]} :
               \E f \in IF arg = "ndarray" /\ d.reply = "addr" /\ d.o = "ok"
                        THEN LinkWriteFaults ELSE {<<0, "ok">>} :
                  LET r == handle_pointer(allocations, call.allocs, call.tracked,
                                          call.sync_enabled, arg, d, f)
                  IN /\ allocations' = r.allocations
                     /\ wire' = wire \o r.wire
                     /\ err' = r.raised
                     /\ live' = live \cup {r.got[k] : k \in 1..Len(r.got)}
                     /\ call' = [call EXCEPT !.i = @ + 1,
                                    !.blob = IF r.raised = "none" THEN @ + 4 ELSE @,
                                    !.allocs = r.allocs,
                                    !.tracked = r.tracked,
                                    !.got = @ \o r.got,
                                    !.failed_in = IF r.raised = "none" THEN @ ELSE "pack"]
                     /\ pc' = AfterTryStep(r.raised, next)
          ELSE LET r == handle_value(param, arg)
               IN /\ err' = r.raised
                  /\ call' = [call EXCEPT !.i = @ + 1,
                                 !.blob = @ + r.bytes,
                                 !.failed_in = IF r.raised = "none" THEN @ ELSE "pack"]
                  /\ pc' = AfterTryStep(r.raised, next)
                  /\ UNCHANGED <<allocations, wire, live>>
    /\ UNCHANGED <<handle, op, before>>

\* self.dm.write_memory(self.args_addr, args_blob)
WriteArgs ==
    /\ UNCHANGED link
    /\ pc = "write_args"
    /\ \E f \in LinkWriteFaults :
        LET r == write_memory(allocations, handle.args_addr, call.blob,
                              FALSE, f[1], f[2])
        IN /\ wire' = wire \o r.wire
           /\ err' = r.raised
           /\ call' = [call EXCEPT !.steps = Append(@, "write_args"),
                          !.failed_in = IF r.raised = "none" THEN @ ELSE "write_args"]
           /\ pc' = AfterTryStep(r.raised, "execute")
    /\ UNCHANGED <<allocations, handle, op, before, live>>

\* self.dm.execute(self.code_addr)
Exec ==
    /\ UNCHANGED link
    /\ pc = "execute"
    /\ \E o \in LinkOutcomes :
        LET r == execute(allocations, handle.code_addr, o)
        IN /\ wire' = wire \o r.wire
           /\ err' = r.raised
           /\ call' = [call EXCEPT !.steps = Append(@, "execute"),
                          !.failed_in = IF r.raised = "none" THEN @ ELSE "execute"]
           /\ pc' = AfterTryStep(r.raised, "sync_back")
    /\ UNCHANGED <<allocations, handle, op, before, live>>

\* handler.sync_back()
SyncBack ==
    /\ UNCHANGED link
    /\ pc = "sync_back"
    /\ \E outs \in [1..Len(call.tracked) -> SyncOutcomes] :
        LET r == sync_back(allocations, call.sync_enabled, call.tracked, outs)
        IN /\ wire' = wire \o r.wire
           /\ call' = [call EXCEPT !.steps = Append(@, "sync_back"),
                          !.copied = r.copied]
    /\ pc' = AfterTryStep("none", "read_return")
    /\ UNCHANGED <<allocations, handle, op, err, before, live>>

\* return handler.get_return_value(self.args_addr)
ReadReturn ==
    /\ UNCHANGED link
    /\ pc = "read_return"
    /\ \E o \in LinkOutcomes :
        LET r == get_return_value(allocations, handle.signature.return_type,
                                  handle.args_addr, o)
        IN /\ wire' = wire \o r.wire
           /\ err' = r.raised
           /\ call' = [call EXCEPT !.steps = Append(@, "read_return"),
                          !.failed_in = IF r.raised = "none" THEN @ ELSE "read_return"]
           /\ pc' = AfterTryStep(r.raised, "cleanup")
    /\ UNCHANGED <<allocations, handle, op, before, live>>

\* finally: handler.cleanup(); the pending return or exception goes on.
Cleanup ==
    /\ UNCHANGED link
    /\ pc = "cleanup"
    /\ \E outs \in [1..Len(call.allocs) -> LinkOutcomes] :
        LET r == cleanup(allocations, call.allocs, outs)
        IN /\ allocations' = r.allocations
           /\ wire' = wire \o r.wire
           /\ live' = live \ r.freed
           /\ call' = [call EXCEPT !.steps = Append(@, "cleanup"),
                          !.allocs = <<>>, !.tracked = <<>>,
                          !.free_failed = \E k \in 1..Len(outs) : outs[k] # "ok"]
    /\ pc' = "done"
    /\ UNCHANGED <<handle, op, err, before>>

----------------------------------------------------------------------------
(* Two-pass loader (P4JIT.load) *)

\* The except path of load with both frees in one try block.
load_except_one_try(table, real_code_addr, real_args_addr, o1, o2) ==
    LET r1 == free(table, real_code_addr, o1)
        r2 == IF real_args_addr # -1 /\ r1.raised = "none"
              THEN free(r1.allocations, real_args_addr, o2)
              ELSE Result("skipped", r1.allocations, <<>>, 0)
    IN [allocations |-> r2.allocations, wire |-> r1.wire \o r2.wire,
        freed |-> (IF r1.raised = "none" THEN {real_code_addr} ELSE {})
                  \cup (IF r2.raised = "none" THEN {real_args_addr} ELSE {}),
        failed |-> r1.raised # "none" \/ r2.raised \notin {"none", "skipped"}]

\* The except path of load: free the code allocation, free the args
\* allocation if it was made (real_args_addr is not None, here -1), each in
\* its own try. Yields the table, the frames, the addresses freed and
\* whether a free raised.
load_except(table, real_code_addr, real_args_addr, o1, o2) ==
    LET r1 == free(table, real_code_addr, o1)
        r2 == IF real_args_addr # -1
              THEN free(r1.allocations, real_args_addr, o2)
              ELSE Result("skipped", r1.allocations, <<>>, 0)
    IN [allocations |-> r2.allocations, wire |-> r1.wire \o r2.wire,
        freed |-> (IF r1.raised = "none" THEN {real_code_addr} ELSE {})
                  \cup (IF r2.raised = "none" THEN {real_args_addr} ELSE {}),
        failed |-> r1.raised # "none" \/ r2.raised \notin {"none", "skipped"}]

\* A code allocation of exactly the pass-1 size.
alloc_code_size_exact(total_size) == total_size

\* alloc_code_size = temp_bin.total_size + 64
alloc_code_size(total_size) == total_size + SAFETY_PADDING

\* Pass-1 build and the code allocation, both before the try block: a build
\* error or a failed allocation leaves load at once.
LoadBegin ==
    /\ UNCHANGED link
    /\ pc = "idle"
    /\ \E built \in BOOLEAN, size1 \in BuildSizes :
        /\ ~handle.valid
        /\ op' = [name |-> "load"]
        /\ handle' = NoHandle
        /\ IF ~built
           THEN /\ err' = "BuildError"
                /\ wire' = <<>>
                /\ pc' = "done"
                /\ call' = NoCall
                /\ UNCHANGED <<allocations, live>>
           ELSE \E d \in LinkAnswers(allocations, alloc_code_size(size1), 16) :
                LET r == allocate(allocations, alloc_code_size(size1), DefaultCaps, 16,
                                  d.o, d.reply, d.addr, d.oh)
                IN /\ allocations' = r.allocations
                   /\ wire' = r.wire
                   /\ err' = r.raised
                   /\ live' = LiveAfterAllocate(live, r)
                   /\ IF r.raised # "none"
                      THEN pc' = "done" /\ call' = NoCall
                      ELSE /\ pc' = "load_args"
                           /\ call' = [kind |-> "load", size1 |-> size1,
                                       real_code_addr |-> r.ret,
                                       real_args_addr |-> -1, size2 |-> 0,
                                       failed_in |-> "none", raised |-> "none",
                                       free_failed |-> FALSE]
    /\ before' = allocations

\* try: the args allocation.
LoadAllocArgs ==
    /\ UNCHANGED link
    /\ pc = "load_args"
    /\ \E d \in LinkAnswers(allocations, ARGS_ARRAY_SIZE * 4, 16) :
        LET r == allocate(allocations, ARGS_ARRAY_SIZE * 4, DefaultCaps, 16,
                          d.o, d.reply, d.addr, d.oh)
        IN /\ allocations' = r.allocations
           /\ wire' = wire \o r.wire
           /\ err' = r.raised
           /\ live' = LiveAfterAllocate(live, r)
           /\ call' = [call EXCEPT !.real_args_addr =
                                      IF r.raised = "none" THEN r.ret ELSE @,
                                  !.failed_in =
                                      IF r.raised = "none" THEN @ ELSE "allocate_args",
                                  !.raised = r.raised]
           /\ pc' = IF r.raised = "none" THEN "load_upload" ELSE "load_except"
    /\ UNCHANGED <<handle, op, before>>

\* try: the pass-2 build at the real addresses and the upload of its blob;
\* on success the JITFunction is created valid, with the signature in the
\* build's metadata and the caller's smart_args.
LoadUpload ==
    /\ UNCHANGED link
    /\ pc = "load_upload"
    /\ \E built \in BOOLEAN, size2 \in Pass2Sizes(call.size1), f \in LinkWriteFaults,
          sig \in Signatures, smart \in BOOLEAN :
        LET r == write_memory(allocations, call.real_code_addr, size2, FALSE,
                              f[1], f[2])
            raised == IF ~built THEN "BuildError" ELSE r.raised
        IN /\ wire' = IF built THEN wire \o r.wire ELSE wire
           /\ err' = raised
           /\ IF raised = "none"
              THEN /\ pc' = "done"
                   /\ handle' =
                          [loaded |-> TRUE, valid |-> TRUE,
                           code_addr |-> call.real_code_addr,
                           args_addr |-> call.real_args_addr,
                           smart_args |-> smart,
                           sync_enabled |-> TRUE,
                           signature |-> sig]
              ELSE pc' = "load_except" /\ UNCHANGED handle
           /\ call' = [call EXCEPT !.size2 = IF built THEN size2 ELSE @,
                                  !.failed_in =
                                      IF raised = "none" THEN @
                                      ELSE IF ~built THEN "build" ELSE "upload",
                                  !.raised = raised]
    /\ UNCHANGED <<allocations, op, before, live>>

\* except: free the code allocation, free the args allocation if it was
\* made, each in its own try; raise the original error.
LoadExcept ==
    /\ UNCHANGED link
    /\ pc = "load_except"
    /\ \E o1 \in LinkOutcomes, o2 \in LinkOutcomes :
        LET r == load_except(allocations, call.real_code_addr,
                             call.real_args_addr, o1, o2)
        IN /\ allocations' = r.allocations
           /\ wire' = wire \o r.wire
           /\ live' = live \ r.freed
           /\ call' = [call EXCEPT !.free_failed = r.failed]
    /\ pc' = "done"
    /\ UNCHANGED <<handle, op, err, before>>

\* The offset of the wrapper's entry symbol in a build's blob: the symbol
\* table's address of the entry function, less the base address.
EntryOffsets == {0, 4}

\* JITSession.load_function on the artifact the handle was made for: upload
\* the blob at its base address, return a RemoteFunction at its
\* entry_address over the caller's args buffer.  A RemoteFunction has no
\* validity flag: it is callable from its construction.
LoadFunction ==
    /\ UNCHANGED link
    /\ pc = "idle"
    /\ handle.loaded
    /\ handle.valid
    /\ \E smart \in BOOLEAN, f \in LinkWriteFaults :
        LET binary_object == handle.binary
            r == write_memory(allocations, binary_object.base_address,
                              binary_object.total_size, FALSE, f[1], f[2])
        IN /\ wire' = r.wire
           /\ err' = r.raised
           /\ op' = [name |-> "load_function", smart_args |-> smart]
           /\ handle' = IF r.raised # "none" THEN handle
                         ELSE [loaded |-> TRUE, valid |-> TRUE,
                               code_addr |-> binary_object.entry_address,
                               args_addr |-> handle.args_addr,
                               smart_args |-> smart,
                               sync_enabled |-> TRUE,
                               signature |-> binary_object.metadata,
                               binary |-> binary_object]
    /\ before' = allocations
    /\ call' = NoCall
    /\ pc' = "done"
    /\ UNCHANGED <<allocations, live>>

\* The handler has returned or raised: its caller takes the result, and
\* the record of the finished operation is dropped.
Return ==
    /\ UNCHANGED link
    /\ pc = "done"
    /\ pc' = "idle"
    /\ call' = NoCall
    /\ op' = [name |-> "none"]
    /\ wire' = <<>>
    /\ err' = "none"
    /\ before' = allocations
    /\ UNCHANGED <<allocations, handle, live>>

----------------------------------------------------------------------------
(* Sessions and the port registry *)

\* Two JITSession objects, neither connected.
InitLink ==
    /\ allocations = EmptyTable
    /\ handle = NoHandle
    /\ pc = "idle"
    /\ call = NoCall
    /\ op = [name |-> "none"]
    /\ wire = <<>>
    /\ err = "none"
    /\ before = EmptyTable
    /\ live = {}
    /\ dm = Unconnected.dm
    /\ _active_connections = Unconnected.reg

\* A session's user calls JITSession.connect(port).
Connect ==
    /\ pc = "idle"
    /\ \E s \in Sessions, port \in Ports, e \in ConnectEnvs :
        LET r == session_connect(dm, _active_connections, s, port, e) IN
        /\ dm' = r.dm
        /\ _active_connections' = r.reg
        /\ wire' = r.wire
        /\ err' = r.raised
        /\ op' = [name |-> "connect", s |-> s, port |-> port, env |-> e,
                  holder |-> IF port \in DOMAIN _active_connections
                             THEN _active_connections[port] ELSE "none"]
    /\ before' = allocations
    /\ call' = NoCall
    /\ pc' = "done"
    /\ UNCHANGED <<allocations, handle, live>>

\* A session's user calls JITSession.connect() without a port.
AutoConnect ==
    /\ pc = "idle"
    /\ \E s \in Sessions, ports \in PortLists :
       \E envs \in [1..Len(ports) -> ConnectEnvs] :
        LET r == session_autodetect(dm, _active_connections, s, ports, envs) IN
        /\ dm' = r.dm
        /\ _active_connections' = r.reg
        /\ wire' = r.wire
        /\ err' = r.raised
        /\ op' = [name |-> "auto_connect", s |-> s, ports |-> ports,
                  envs |-> envs, probed |-> r.probed]
    /\ before' = allocations
    /\ call' = NoCall
    /\ pc' = "done"
    /\ UNCHANGED <<allocations, handle, live>>

\* Two threads, one per session, call DeviceManager.connect on the same
\* port at the same time. The code takes no lock, so the threads' steps
\* interleave at each access to the registry and at the opening of the
\* port. call.at[s] is the position of the thread of session s.
ConnectThreads ==
    /\ pc = "idle"
    /\ \E port \in Ports :
        /\ dm' = [s \in Sessions |-> [dm[s] EXCEPT !.port = port]]
        /\ call' = [kind |-> "threads", port |-> port,
                    at |-> [s \in Sessions |-> "check"],
                    old_dm |-> [s \in Sessions |-> "none"]]
        /\ op' = [name |-> "connect_threads", port |-> port]
    /\ pc' = "threads"
    /\ wire' = <<>>
    /\ err' = "none"
    /\ before' = allocations
    /\ UNCHANGED <<allocations, handle, live, _active_connections>>

\* if self.port in DeviceManager._active_connections: old_dm = ...[self.port]
ThreadCheck ==
    /\ pc = "threads"
    /\ \E s \in Sessions :
        /\ call.at[s] = "check"
        /\ LET reg == _active_connections
               held == call.port \in DOMAIN reg /\ reg[call.port] # s
           IN call' = [call EXCEPT
                          !.at[s] = IF held THEN "force" ELSE "open",
                          !.old_dm[s] = IF held THEN reg[call.port] ELSE "none"]
    /\ UNCHANGED <<allocations, handle, pc, op, wire, err, before, live, link>>

\* old_dm.disconnect()
ThreadForce ==
    /\ pc = "threads"
    /\ \E s \in Sessions :
        /\ call.at[s] = "force"
        /\ LET r == disconnect(dm, _active_connections, call.old_dm[s])
           IN /\ dm' = r.dm
              /\ _active_connections' = r.reg
        /\ call' = [call EXCEPT !.at[s] = "open"]
    /\ UNCHANGED <<allocations, handle, pc, op, wire, err, before, live>>

\* self.serial = serial.Serial(self.port, ...): the port opens, or the
\* constructor raises and connect is left.
ThreadOpen ==
    /\ pc = "threads"
    /\ \E s \in Sessions, opened \in BOOLEAN :
        /\ call.at[s] = "open"
        /\ dm' = IF opened
                 THEN [dm EXCEPT ![s].serial = "open", ![s].on = call.port]
                 ELSE dm
        /\ call' = [call EXCEPT !.at[s] = IF opened THEN "register" ELSE "raised"]
    /\ UNCHANGED <<allocations, handle, pc, op, wire, err, before, live,
                   _active_connections>>

\* DeviceManager._active_connections[self.port] = self
ThreadRegister ==
    /\ pc = "threads"
    /\ \E s \in Sessions :
        /\ call.at[s] = "register"
        /\ _active_connections' =
              [p \in DOMAIN _active_connections \cup {call.port} |->
                  IF p = call.port THEN s ELSE _active_connections[p]]
        /\ call' = [call EXCEPT !.at[s] = "returned"]
    /\ UNCHANGED <<allocations, handle, pc, op, wire, err, before, live, dm>>

\* Both threads have left connect.
ThreadsJoin ==
    /\ pc = "threads"
    /\ \A s \in Sessions : call.at[s] \in {"returned", "raised"}
    /\ pc' = "done"
    /\ UNCHANGED <<allocations, handle, call, op, wire, err, before, live, link>>

\* A session's user calls DeviceManager.disconnect.
Disconnect ==
    /\ pc = "idle"
    /\ \E s \in Sessions :
        LET r == disconnect(dm, _active_connections, s) IN
        /\ dm' = r.dm
        /\ _active_connections' = r.reg
        /\ op' = [name |-> "disconnect", s |-> s]
    /\ wire' = <<>>
    /\ err' = "none"
    /\ before' = allocations
    /\ call' = NoCall
    /\ pc' = "done"
    /\ UNCHANGED <<allocations, handle, live>>

\* A session's user calls DeviceManager.get_heap_info.
HeapInfo ==
    /\ pc = "idle"
    /\ \E s \in Sessions : \E o \in SessionOutcomes(s) :
        LET r == get_heap_info(o) IN
        /\ wire' = r.wire
        /\ err' = r.raised
        /\ op' = [name |-> "get_heap_info", s |-> s]
    /\ before' = allocations
    /\ call' = NoCall
    /\ pc' = "done"
    /\ UNCHANGED <<allocations, handle, live, link>>

\* A session sends one request and reads what comes back.
Exchange ==
    /\ pc = "idle"
    /\ \E s \in Sessions, q \in Requests :
        \E c \in IF dm[s].serial = "open"
                 THEN ResponseCases(q.cmd_id, q.payload)
                 ELSE {[kind |-> "plain", frame |-> <<>>, at |-> 0, rx |-> <<>>]} :
            LET r == _send_packet(q.cmd_id, q.payload, dm[s].serial = "open", c.rx)
            IN /\ wire' = r.written
               /\ err' = r.raised
               /\ op' = [name |-> "exchange", s |-> s, cmd_id |-> q.cmd_id,
                         payload |-> q.payload, kind |-> c.kind,
                         frame |-> c.frame, at |-> c.at, rx |-> c.rx,
                         ret |-> r.ret, code |-> r.code]
    /\ before' = allocations
    /\ call' = NoCall
    /\ pc' = "done"
    /\ UNCHANGED <<allocations, handle, live, link>>

\* The toolchain builds the wrapper for a signature.
Build ==
    /\ pc = "idle"
    /\ \E parameters \in ParamLists, return_type \in ReturnTypes,
          args_array_size \in SlotCapacities, arg_address \in ArgBases :
        LET r == build_with_wrapper(parameters, return_type, arg_address,
                                    args_array_size)
        IN /\ err' = r.raised
           /\ op' = [name |-> "build", parameters |-> parameters,
                     return_type |-> return_type, arg_address |-> arg_address,
                     args_array_size |-> args_array_size,
                     metadata |-> r.metadata]
    /\ wire' = <<>>
    /\ before' = allocations
    /\ call' = NoCall
    /\ pc' = "done"
    /\ UNCHANGED <<allocations, handle, live, link>>

\* The marshaller of a function whose args buffer is the record at
\* args_addr, args_array_size slots long, reads the return value.
GetReturn ==
    /\ UNCHANGED link
    /\ pc = "idle"
    /\ \E args_addr \in DOMAIN allocations, return_type \in ReturnTypes,
          o \in LinkOutcomes :
        LET r == get_return_value(allocations, return_type, args_addr, o)
        IN /\ wire' = r.wire
           /\ err' = r.raised
           /\ op' = [name |-> "get_return_value", args_addr |-> args_addr,
                     return_type |-> return_type,
                     args_array_size |-> allocations[args_addr].size \div 4]
    /\ before' = allocations
    /\ call' = NoCall
    /\ pc' = "done"
    /\ UNCHANGED <<allocations, handle, live>>

\* The toolchain finishes a build at base address 64.
BuilderBuild ==
    /\ pc = "idle"
    /\ \E sections \in SectionTables, raw_len \in RawLens,
          entry_found \in BOOLEAN, max_size \in MaxSizes :
        LET r == builder_build(sections, 64, raw_len, entry_found, max_size)
        IN /\ err' = r.raised
           /\ op' = [name |-> "builder_build", sections |-> sections,
                     base_address |-> 64, raw_len |-> raw_len,
                     max_size |-> max_size, entry_found |-> entry_found,
                     artifact |-> r.artifact, total_size |-> r.total_size]
    /\ wire' = <<>>
    /\ before' = allocations
    /\ call' = NoCall
    /\ pc' = "done"
    /\ UNCHANGED <<allocations, handle, live, link>>

\* pack hands one value argument to _handle_value.
PackValue ==
    /\ pc = "idle"
    /\ \E param_type \in ValueTypes : \E arg \in Values(param_type) :
        LET r == _handle_value(arg, param_type)
        IN /\ err' = r.raised
           /\ op' = [name |-> "pack_value", param_type |-> param_type,
                     arg |-> arg, bytes |-> r.bytes]
    /\ wire' = <<>>
    /\ before' = allocations
    /\ call' = NoCall
    /\ pc' = "done"
    /\ UNCHANGED <<allocations, handle, live, link>>

\* SmartArgs.pack on the marshaller of a function whose wrapper build, with
\* capacity args_array_size, was accepted: the signature is the build's
\* metadata, the arguments match it, and the packed values are joined in
\* order.  The allocations and uploads of _handle_pointer are PackArg's.
PackBuffer ==
    /\ pc = "idle"
    /\ \E parameters \in PackParamLists, args_array_size \in SlotCapacities :
        LET b == build_with_wrapper(parameters, "int", 128, args_array_size)
            args == [i \in 1..Len(parameters) |-> PackArgOf(parameters[i])]
        IN /\ b.raised = "none"
           /\ arity_check(args, parameters) = "none"
           /\ op' = [name |-> "pack", parameters |-> parameters,
                     args_array_size |-> args_array_size,
                     addresses |-> b.metadata,
                     buffer |-> pack_buffer(parameters, args),
                     offsets |-> [i \in 1..Len(parameters) |->
                                     pack_offset(parameters, args, i)]]
    /\ err' = "none"
    /\ wire' = <<>>
    /\ before' = allocations
    /\ call' = NoCall
    /\ pc' = "done"
    /\ UNCHANGED <<allocations, handle, live, link>>

\* The device session used directly.
Next ==
    \/ Return
    \/ Allocate
    \/ Free
    \/ WriteMemory
    \/ ReadMemory
    \/ Execute

Spec == Init /\ [][Next]_vars

\* Loading, calling and freeing functions through the handle.
NextJit ==
    \/ Return
    \/ LoadBegin
    \/ LoadAllocArgs
    \/ LoadUpload
    \/ LoadExcept
    \/ CallBegin
    \/ PackArg
    \/ WriteArgs
    \/ Exec
    \/ SyncBack
    \/ ReadReturn
    \/ Cleanup
    \/ RawCall
    \/ HandleFree

SpecJit == Init /\ [][NextJit]_vars

\* Two sessions connecting to the port, and session "A" using its device.
NextLink ==
    \/ Return
    \/ Connect
    \/ Disconnect
    \/ HeapInfo
    \/ Allocate
    \/ Free
    \/ WriteMemory
    \/ ReadMemory
    \/ Execute

SpecLink == InitLink /\ [][NextLink]_vars

\* Single exchanges of a connected, a disconnected and a never-connected
\* session.
NextFrame ==
    \/ Return
    \/ Exchange
    \/ Disconnect

SpecFrame == Init /\ [][NextFrame]_vars

\* Two sessions connecting to the port from two threads, and
\* disconnecting.
NextThreads ==
    \/ Return
    \/ ConnectThreads
    \/ ThreadCheck
    \/ ThreadForce
    \/ ThreadOpen
    \/ ThreadRegister
    \/ ThreadsJoin
    \/ Disconnect

SpecThreads == InitLink /\ [][NextThreads]_vars

\* Sessions that auto-detect their port and disconnect.
NextDetect ==
    \/ Return
    \/ AutoConnect
    \/ Disconnect

SpecDetect == InitLink /\ [][NextDetect]_vars

\* The functions P4JIT.load has returned a handle for: those above,
\* int k(void), whose slot buffer is empty, and int m(float*, float*).
LoadedSignatures ==
    Signatures \cup {[parameters |-> <<>>, return_type |-> "int"],
                     [parameters |-> <<Pointer, Pointer>>, return_type |-> "int"]}

\* The session after P4JIT.load returned a smart-args function whose
\* pass-1 build was 16 bytes: the code buffer at the first granule, the
\* args buffer at the second, both tracked, and the handle valid with
\* sync_arrays at its default.
InitCall ==
    /\ \E sig \in LoadedSignatures :
        handle = [loaded |-> TRUE, valid |-> TRUE,
                  code_addr |-> 0, args_addr |-> 128,
                  smart_args |-> TRUE, sync_enabled |-> TRUE,
                  signature |-> sig]
    /\ allocations = Track(Track(EmptyTable, 0, 16 + SAFETY_PADDING,
                                 DefaultCaps, 16),
                           128, ARGS_ARRAY_SIZE * 4, DefaultCaps, 16)
    /\ live = {0, 128}
    /\ before = allocations
    /\ pc = "idle"
    /\ call = NoCall
    /\ op = [name |-> "none"]
    /\ wire = <<>>
    /\ err = "none"
    /\ dm = Connected.dm
    /\ _active_connections = Connected.reg

\* Smart-args calls on a loaded function, with sync_arrays set between them.
NextCall ==
    \/ Return
    \/ SetSync
    \/ CallBegin
    \/ PackArg
    \/ WriteArgs
    \/ Exec
    \/ SyncBack
    \/ ReadReturn
    \/ Cleanup

SpecCall == InitCall /\ [][NextCall]_vars

\* The session after P4JIT.load returned a function whose builds were 16
\* bytes: the buffers as above, and the JITFunction made from the pass-2
\* artifact, the code allocation's address and the args allocation's
\* address.  The artifact was linked at the code allocation's address; its
\* entry symbol is at one of EntryOffsets.
InitEntry ==
    /\ \E sig \in Signatures, smart \in BOOLEAN, entry \in EntryOffsets :
        handle = [loaded |-> TRUE, valid |-> TRUE,
                  code_addr |-> 0, args_addr |-> 128,
                  smart_args |-> smart, sync_enabled |-> TRUE,
                  signature |-> sig,
                  binary |-> [base_address |-> 0, entry_address |-> 0 + entry,
                              total_size |-> 16, metadata |-> sig]]
    /\ allocations = Track(Track(EmptyTable, 0, 16 + SAFETY_PADDING,
                                 DefaultCaps, 16),
                           128, ARGS_ARRAY_SIZE * 4, DefaultCaps, 16)
    /\ live = {0, 128}
    /\ before = allocations
    /\ pc = "idle"
    /\ call = NoCall
    /\ op = [name |-> "none"]
    /\ wire = <<>>
    /\ err = "none"
    /\ dm = Connected.dm
    /\ _active_connections = Connected.reg

\* Calls on the function P4JIT.load returned, and on the function
\* JITSession.load_function returns for the same artifact.
NextEntry ==
    \/ Return
    \/ LoadFunction
    \/ RawCall
    \/ CallBegin
    \/ PackArg
    \/ WriteArgs
    \/ Exec
    \/ SyncBack
    \/ ReadReturn
    \/ Cleanup

SpecEntry == InitEntry /\ [][NextEntry]_vars

\* The toolchain's builds.
NextBuild ==
    \/ Return
    \/ BuilderBuild

SpecBuild == Init /\ [][NextBuild]_vars

\* The toolchain's wrapper build and the marshaller's value packing.
NextAbi ==
    \/ Return
    \/ Build
    \/ PackValue
    \/ PackBuffer

SpecAbi == Init /\ [][NextAbi]_vars

\* The marshaller's return read over args buffers the session allocated.
NextReturn ==
    \/ Return
    \/ Allocate
    \/ GetReturn

SpecReturn == Init /\ [][NextReturn]_vars

----------------------------------------------------------------------------
(* Properties of the device session, checked under Spec *)

IsFree(f) == f.cmd = "FREE"
FreeFrames(frames) == SelectSeq(frames, IsFree)

\* The access of the finished operation lies within one record of the table
\* the operation found.
AccessWithinOneRecord ==
    \E start \in DOMAIN before :
        start <= op.addr /\ op.addr + op.size <= start + before[start].size

\* C1: a bounds-checked write_memory or read_memory whose range lies within no
\* single allocation record fails with BoundsViolation, sends no frame and
\* leaves the table as it was, so that every record can still be freed.
C1_BoundsViolationSendsNothing ==
    (/\ pc = "done"
     /\ op.name \in {"write_memory", "read_memory"}
     /\ ~op.skip
     /\ ~AccessWithinOneRecord)
    => /\ err = "BoundsViolation"
       /\ wire = <<>>
       /\ allocations = before
       /\ \A a \in DOMAIN before :
            /\ free(allocations, a, "ok").raised = "none"
            /\ a \notin DOMAIN free(allocations, a, "ok").allocations

\* A write across two adjacent records, each byte of it allocated, was refused.
C1_Witness ==
    /\ pc = "done"
    /\ op.name = "write_memory"
    /\ ~op.skip
    /\ err = "BoundsViolation"
    /\ \E s1 \in DOMAIN before, s2 \in DOMAIN before :
        /\ s1 + before[s1].size = s2
        /\ s1 <= op.addr /\ op.addr < s2
        /\ s2 < op.addr + op.size
        /\ op.addr + op.size <= s2 + before[s2].size

\* C2: when the FREE exchange for a tracked address fails (error frame or
\* transport failure) free raises and the record stays, so a retry is
\* accepted; the table loses a record only in a free whose FREE succeeded.
C2_FailedFreeKeepsRecord ==
    (pc = "done" /\ op.name = "free" /\ op.addr \in DOMAIN before)
    => /\ op.o # "ok" =>
            /\ err \in {"DeviceError", "Timeout"}
            /\ allocations = before
            /\ free(allocations, op.addr, "ok").raised = "none"
       /\ allocations # before =>
            /\ op.o = "ok"
            /\ err = "none"
            /\ wire = <<Frame("FREE", op.addr, 0)>>
            /\ DOMAIN allocations = DOMAIN before \ {op.addr}

\* A FREE that timed out, next to another record.
C2_Witness ==
    /\ pc = "done"
    /\ op.name = "free"
    /\ op.addr \in DOMAIN before
    /\ op.o = "timeout"
    /\ err = "Timeout"
    /\ Cardinality(DOMAIN allocations) = 2

\* C3: free of an address that is no key of the table fails with
\* UnknownAllocation, sends no FREE frame and leaves the table unchanged.
C3_UnknownFreeSendsNothing ==
    (pc = "done" /\ op.name = "free" /\ op.addr \notin DOMAIN before)
    => /\ err = "UnknownAllocation"
       /\ wire = <<>>
       /\ allocations = before

\* An untracked address is freed while other records are tracked.
C3_Witness ==
    /\ pc = "done"
    /\ op.name = "free"
    /\ op.addr \notin DOMAIN before
    /\ err = "UnknownAllocation"
    /\ before # EmptyTable

\* C4: at every point the keys of the table are the addresses allocated and
\* not yet freed; so when every allocate has had its free the table is empty.
C4_TableIsLiveSet ==
    /\ DOMAIN allocations = live
    /\ live = {} => allocations = EmptyTable

\* A free has just emptied the table.
C4_Witness ==
    /\ pc = "done"
    /\ op.name = "free"
    /\ err = "none"
    /\ allocations = EmptyTable
    /\ live = {}

\* C5: an ALLOC answered with a nonzero err makes allocate fail with
\* OutOfDeviceMemory and leaves the table as it was, however the HEAP_INFO
\* exchange that follows ends.
C5_OutOfMemoryLeavesTable ==
    (pc = "done" /\ op.name = "allocate" /\ op.o = "ok" /\ op.reply = "oom")
    => /\ err = "OutOfDeviceMemory"
       /\ allocations = before
       /\ wire = <<Frame("ALLOC", 0, op.size), Frame("HEAP_INFO", 0, 0)>>

\* The device refused an ALLOC and the HEAP_INFO query then timed out.
C5_Witness ==
    /\ pc = "done"
    /\ op.name = "allocate"
    /\ op.reply = "oom"
    /\ op.oh = "timeout"
    /\ err = "OutOfDeviceMemory"
    /\ before # EmptyTable

----------------------------------------------------------------------------
(* Properties of calls and handles, checked under SpecJit *)

InCall == pc \in {"pack", "write_args", "execute", "sync_back", "read_return", "cleanup"}
Count(seq, x) == Cardinality({k \in 1..Len(seq) : seq[k] = x})

\* C6: when a smart-args call has returned or raised and the FREE exchanges
\* of its cleanup succeeded, the table is what it was before the call and
\* holds none of the array buffers the call allocated.
C6_CallRestoresTable ==
    (pc = "done" /\ op.name = "call" /\ call.kind = "call" /\ ~call.free_failed)
    => /\ allocations = before
       /\ \A k \in 1..Len(call.got) : call.got[k] \notin DOMAIN allocations

\* A call with an array argument failed in execute and was cleaned up.
C6_Witness ==
    /\ pc = "done"
    /\ op.name = "call"
    /\ call.kind = "call"
    /\ ~call.free_failed
    /\ call.failed_in = "execute"
    /\ Len(call.got) >= 1
    /\ handle.code_addr \in DOMAIN allocations
    /\ handle.args_addr \in DOMAIN allocations

\* C7: on every path of a smart-args call on a valid handle cleanup runs
\* exactly once, after every other step of the call.
C7_CleanupExactlyOnceLast ==
    /\ (pc = "done" /\ op.name = "call" /\ op.was_valid)
       => /\ call.kind = "call"
          /\ Count(call.steps, "cleanup") = 1
          /\ call.steps[Len(call.steps)] = "cleanup"
    /\ (InCall /\ pc # "cleanup") => Count(call.steps, "cleanup") = 0

\* A call whose pack raised on its second argument has finished.
C7_Witness ==
    /\ pc = "done"
    /\ op.name = "call"
    /\ call.kind = "call"
    /\ call.failed_in = "pack"
    /\ err = "TypeMismatch"
    /\ Len(call.got) = 1

\* C8: when pack raised after k array buffers had been allocated, cleanup
\* sent exactly k FREE frames, one for each of those addresses.
C8_CleanupFreesWhatPackAllocated ==
    (pc = "done" /\ op.name = "call" /\ call.kind = "call" /\ call.failed_in = "pack")
    => /\ Len(FreeFrames(wire)) = Len(call.got)
       /\ \A k \in 1..Len(call.got) : FreeFrames(wire)[k].addr = call.got[k]

\* pack raised in the write of its second array: two buffers were allocated.
C8_Witness ==
    /\ pc = "done"
    /\ op.name = "call"
    /\ call.kind = "call"
    /\ call.failed_in = "pack"
    /\ err \in {"DeviceError", "Timeout"}
    /\ Len(call.got) = 2

\* C9: free on a handle that was freed before sends nothing, raises nothing
\* and leaves the handle invalid; every free leaves the handle invalid.
C9_SecondFreeIsNoOp ==
    (pc = "done" /\ op.name = "jit_free")
    => /\ ~handle.valid
       /\ err = "none"
       /\ ~op.was_valid => wire = <<>> /\ allocations = before

\* The second free of a handle whose first free failed: its code record is
\* still tracked, and still nothing is sent.
C9_Witness ==
    /\ pc = "done"
    /\ op.name = "jit_free"
    /\ ~op.was_valid
    /\ handle.code_addr \in DOMAIN allocations

\* C10: free on a valid handle attempts the free of code_addr and the free
\* of args_addr whatever the first one's outcome, raises nothing and leaves
\* the handle invalid.
C10_FreeAttemptsBoth ==
    (pc = "done" /\ op.name = "jit_free" /\ op.was_valid)
    => /\ op.attempted = <<handle.code_addr, handle.args_addr>>
       /\ err = "none"
       /\ ~handle.valid

\* C11: a call on a handle that was freed fails with FunctionReleased before
\* any device command is sent, and a freed handle is never valid again.
C11_InvalidHandleFailsFast ==
    /\ [](pc = "done" /\ op.name \in {"call", "raw_call"} /\ ~op.was_valid
            => /\ err = "FunctionReleased"
               /\ wire = <<>>
               /\ allocations = before
               /\ ~handle.valid)
    /\ [][(handle.loaded /\ ~handle.valid) => ~handle'.valid]_vars

\* A smart-args call with two arguments on a freed handle has failed.
C11_Witness ==
    /\ pc = "done"
    /\ op.name = "call"
    /\ ~op.was_valid
    /\ Len(op.args) = 2
    /\ err = "FunctionReleased"

\* C12: in every state reached through load, call and free on handles, a
\* valid handle's code_addr and args_addr are keys of the allocation table.
C12_ValidHandleIsTracked ==
    handle.valid
    => /\ handle.code_addr \in DOMAIN allocations
       /\ handle.args_addr \in DOMAIN allocations

\* A call that allocated an array buffer was cleaned up; the handle's two
\* records are what is left.
C12_Witness ==
    /\ pc = "done"
    /\ op.name = "call"
    /\ handle.valid
    /\ Len(call.got) >= 1
    /\ DOMAIN allocations = {handle.code_addr, handle.args_addr}

\* The addresses of the allocations a load in its except path had made.
LoadMade == <<call.real_code_addr>>
            \o (IF call.real_args_addr # -1 THEN <<call.real_args_addr>> ELSE <<>>)

\* C13: a load that fails after its code allocation (in the args allocation,
\* the pass-2 build or the upload) attempts one free for each allocation it
\* made, raises the original error and returns no handle; when its FREE
\* exchanges succeed the table is what it was before the load.
C13_FailedLoadReleases ==
    (pc = "done" /\ op.name = "load" /\ call.kind = "load" /\ call.failed_in # "none")
    => /\ Len(FreeFrames(wire)) = Len(LoadMade)
       /\ \A k \in 1..Len(LoadMade) : FreeFrames(wire)[k].addr = LoadMade[k]
       /\ err = call.raised
       /\ err # "none"
       /\ ~handle.loaded
       /\ ~call.free_failed => allocations = before

\* The upload failed and the FREE of the code allocation failed too: the args
\* allocation was freed all the same.
C13_Witness ==
    /\ pc = "done"
    /\ op.name = "load"
    /\ call.kind = "load"
    /\ call.failed_in = "upload"
    /\ call.free_failed
    /\ call.real_code_addr \in DOMAIN allocations
    /\ call.real_args_addr \notin DOMAIN allocations

\* The frames of the finished write carry consecutive slices of the payload
\* to consecutive addresses, from op.addr on, and end at op.addr + op.size.
ChunksTileTheWrite ==
    /\ \A k \in 1..Len(wire) :
        /\ wire[k].cmd = "WRITE_MEM"
        /\ wire[k].size > 0
        /\ wire[k].addr = op.addr + wire[k].off
        /\ wire[k].off = IF k = 1 THEN 0 ELSE wire[k - 1].off + wire[k - 1].size
    /\ op.size = IF wire = <<>> THEN 0
                 ELSE wire[Len(wire)].off + wire[Len(wire)].size

\* C14 as amended: a write_memory that the bounds check accepts and that
\* succeeds sends WRITE_MEM frames whose data in send order is the payload and
\* whose address ranges tile [addr, addr + |P|) from addr on: one or more
\* frames for a payload that is not empty, none for the empty payload.
C14_ChunksCoverPayload ==
    (pc = "done" /\ op.name = "write_memory" /\ err = "none")
    => /\ ChunksTileTheWrite
       /\ op.size > 0 <=> Len(wire) >= 1

\* A write of more than two chunks went out in three frames.
C14_Witness ==
    /\ pc = "done"
    /\ op.name = "write_memory"
    /\ err = "none"
    /\ op.size = 2 * CHUNK_SIZE + 1
    /\ Len(wire) = 3

\* C14 as stated: every accepted write_memory sends one or more frames.
C14_OneOrMoreFrames ==
    (pc = "done" /\ op.name = "write_memory" /\ err = "none")
    => /\ ChunksTileTheWrite
       /\ Len(wire) >= 1

----------------------------------------------------------------------------
(* Properties of connecting sessions, checked under SpecLink *)

\* C15: every chunk write_memory sends in one WRITE_MEM is no larger than the
\* max_payload the device reported in GET_INFO, and no larger than the
\* default chunk size when the session has no device info.
C15_ChunksWithinMaxPayload ==
    (pc = "done" /\ op.name = "write_memory")
    => \A k \in 1..Len(wire) :
        wire[k].size <= IF dm["A"].device_info.known
                        THEN dm["A"].device_info.max_payload_size
                        ELSE CHUNK_SIZE

\* The finished connect found the port open, got its PING echoed and a full
\* GET_INFO reply.
InfoAnswered ==
    op.env.opened /\ op.env.ping /\ op.env.o = "ok" /\ op.env.reply.len_ok

OpSession == IF op.name = "get_heap_info" THEN op.s ELSE "A"

\* The finished device operation got past its host-side checks to an exchange.
NeedsExchange ==
    CASE op.name = "free" -> op.addr \in DOMAIN before
      [] op.name = "write_memory" ->
            (op.skip \/ AccessWithinOneRecord) /\ op.size > 0
      [] op.name = "read_memory" -> op.skip \/ AccessWithinOneRecord
      [] op.name = "execute" ->
            \E start \in DOMAIN before :
                start <= op.addr /\ op.addr < start + before[start].size
      [] OTHER -> TRUE

----------------------------------------------------------------------------
(* Properties of one exchange, checked under SpecFrame *)

\* An exchange has run on an open link: the request was written and the
\* bytes op.rx came back.
Exchanged == pc = "done" /\ op.name = "exchange" /\ dm[op.s].serial = "open"

\* The 32-bit little-endian number at positions i..i+3 of bytes.
U32At(bytes, i) ==
    bytes[i] + 256 * bytes[i + 1] + 65536 * bytes[i + 2]
        + 16777216 * bytes[i + 3]

\* The two bytes of rx after a payload of n bytes are the little-endian sum,
\* modulo 2^16, of the n + 8 bytes before them.
SumVerifies(rx, n) ==
    rx[9 + n] + 256 * rx[10 + n] = Sum(SubSeq(rx, 1, 8 + n)) % 65536

\* One byte of the header after the magic, or of the payload, of the
\* response op.frame was altered on the way; its checksum bytes were not.
Tampered ==
    Exchanged /\ op.kind = "tamper" /\ op.at \in 3..(Len(op.frame) - 2)

\* C16 (as stated): altering one byte of the command id, the flags, the
\* payload length or the payload of a well-formed response, the checksum
\* left as sent, makes the exchange fail with ChecksumMismatch and return
\* nothing.
C16_TamperIsChecksumMismatch ==
    Tampered => (err = "ChecksumMismatch" /\ op.ret = <<>>)

\* C16 (amended): an altered flags or payload byte gives ChecksumMismatch;
\* an altered command id gives CommandMismatch; an altered length byte gives
\* Timeout when the declared length grew and, when it shrank, either
\* ChecksumMismatch or, if the bytes then read as the checksum equal the sum
\* of the shortened frame, the outcome of that shortened frame. Whatever is
\* returned is a prefix of the payload as sent: no altered byte is returned.
C16_TamperNeverReturnsAltered ==
    Tampered =>
        LET sent == Len(op.frame) - 10
            declared == U32At(op.rx, 5)
        IN /\ op.at = 3 => err = "CommandMismatch"
           /\ (op.at = 4 \/ op.at > 8) => err = "ChecksumMismatch"
           /\ (op.at \in 5..8 /\ declared > sent) => err = "Timeout"
           /\ (op.at \in 5..8 /\ declared < sent) =>
                \/ err = "ChecksumMismatch"
                \/ /\ SumVerifies(op.rx, declared)
                   /\ err \in {"none", "DeviceError", "StructError"}
                   /\ err = "none" <=> op.rx[4] # 2
           /\ err = "none" => op.ret = SubSeq(op.frame, 9, 8 + Len(op.ret))
           /\ err # "none" => op.ret = <<>>

\* A length byte of a 4-byte reply was lowered and the bytes read as the
\* checksum verify: the first 3 bytes of the payload are returned.
C16_Witness ==
    /\ Tampered
    /\ op.at = 5
    /\ Len(op.frame) = 14
    /\ err = "none"
    /\ Len(op.ret) = 3

\* C17: the request written for (cmd_id, payload) is 0xA5 0x5A, cmd_id, 0,
\* the payload length in 4 little-endian bytes, the payload, and the sum of
\* all those bytes modulo 2^16 in 2 little-endian bytes; read back as a
\* response it is accepted and yields the same payload.
C17_RequestFrameRoundTrip ==
    Exchanged =>
        LET n == Len(op.payload)
        IN /\ Len(wire) = 10 + n
           /\ wire[1] = 165 /\ wire[2] = 90
           /\ wire[3] = op.cmd_id
           /\ wire[4] = 0
           /\ U32At(wire, 5) = n
           /\ SubSeq(wire, 9, 8 + n) = op.payload
           /\ SumVerifies(wire, n)
           /\ op.kind = "echo" =>
                /\ op.rx = wire
                /\ err = "none"
                /\ op.ret = op.payload

\* The request whose bytes sum past 2^16 was written and read back.
C17_Witness ==
    /\ Exchanged
    /\ op.kind = "echo"
    /\ Len(op.payload) = BigLen
    /\ Sum(SubSeq(wire, 1, 8 + BigLen)) > 65535
    /\ err = "none"
    /\ op.ret = op.payload

----------------------------------------------------------------------------
(* Properties of execute, checked under Spec *)

\* The address of the finished execute lay inside a record of the table.
ExecInsideRecord ==
    \E start \in DOMAIN before :
        start <= op.addr /\ op.addr < start + before[start].size

\* C24: execute(addr) writes an EXEC frame, and only that, exactly when addr
\* lies inside some record (start <= addr < start + size), whatever the
\* record's caps; for any other address it fails and writes nothing.
C24_ExecuteOnlyInsideRecord ==
    (pc = "done" /\ op.name = "execute") =>
        /\ ExecInsideRecord => wire = <<Frame("EXEC", op.addr, 0)>>
        /\ ~ExecInsideRecord => (wire = <<>> /\ err = "BoundsViolation")
        /\ allocations = before

\* An execute inside a record that was allocated without MALLOC_CAP_EXEC
\* was sent and answered.
C24_Witness ==
    /\ pc = "done" /\ op.name = "execute"
    /\ err = "none"
    /\ wire = <<Frame("EXEC", op.addr, 0)>>
    /\ \E start \in DOMAIN before :
        /\ start < op.addr /\ op.addr < start + before[start].size
        /\ before[start].caps = DefaultCaps

----------------------------------------------------------------------------
(* Release of the records, checked under SpecLink *)

\* C25: every record is released exactly once, by free or by the teardown
\* of the session: a FREE that succeeded was the only one of its call and
\* took the record out of the table, so that no second FREE for it can be
\* sent, and once the session is disconnected its table holds no record,
\* since a record in the table is one that was never released.
C25_ReleasedExactlyOnce ==
    /\ (pc = "done" /\ op.name = "free" /\ wire # <<>>) =>
            /\ wire = <<Frame("FREE", op.addr, 0)>>
            /\ op.addr \in DOMAIN before
            /\ err = "none" => op.addr \notin DOMAIN allocations
    /\ (pc = "done" /\ op.name = "disconnect" /\ op.s = "A") =>
            DOMAIN allocations = {}

----------------------------------------------------------------------------
(* Properties of the wrapper build and the marshalling, checked under       *)
(* SpecAbi and SpecReturn                                                  *)

\* Slots of a signature: 1 per pointer or 32-bit value, 2 per 64-bit value.
RECURSIVE ParamSlots(_)
ParamSlots(parameters) ==
    IF parameters = <<>> THEN 0
    ELSE (IF Head(parameters).category = "value" /\ Head(parameters).is64
          THEN 2 ELSE 1) + ParamSlots(Tail(parameters))
ReturnSlots(return_type) ==
    IF return_type \in {"int64_t", "uint64_t", "double"} THEN 2 ELSE 1

\* C21: with capacity N a signature whose parameter slots plus return slots
\* are at most N is accepted, one that needs more is rejected with
\* SignatureTooWide, and in an accepted layout no parameter slot is a return
\* slot.
C21_WideSignatureRejected ==
    (pc = "done" /\ op.name = "build") =>
        LET total == ParamSlots(op.parameters) + ReturnSlots(op.return_type)
        IN /\ total <= op.args_array_size => err = "none"
           /\ total > op.args_array_size => err = "SignatureTooWide"
           /\ err = "none" =>
                \A i \in 1..Len(op.parameters) :
                    op.metadata.arguments[i].slot
                        + op.metadata.arguments[i].slot_count
                            <= op.metadata.return.slot

\* C33: in the metadata of an accepted build parameter i starts at the
\* slot that is the sum of the widths of the parameters before it (1 for a
\* pointer or a 32-bit value, 2 for a 64-bit value), its address is
\* arg_base + 4 * slot, and the return descriptor has slot N - width and
\* address arg_base + 4 * (N - width), width being that of the return type.
C33_SlotsAssignedLeftToRight ==
    (pc = "done" /\ op.name = "build" /\ err = "none") =>
        /\ Len(op.metadata.arguments) = Len(op.parameters)
        /\ \A i \in 1..Len(op.parameters) :
            LET slot == ParamSlots(SubSeq(op.parameters, 1, i - 1))
            IN /\ op.metadata.arguments[i].slot = slot
               /\ op.metadata.arguments[i].address = op.arg_address + 4 * slot
        /\ LET width == ReturnSlots(op.return_type)
           IN /\ op.metadata.return.slot = op.args_array_size - width
              /\ op.metadata.return.address
                    = op.arg_address + 4 * (op.args_array_size - width)

\* An accepted build at arg_base 128 of a function taking a 64-bit value
\* and then a pointer and returning a double: the pointer has slot 2 at
\* address 136, the return value slot N - 2.
C33_Witness ==
    /\ pc = "done" /\ op.name = "build" /\ err = "none"
    /\ op.arg_address = 128
    /\ op.parameters = <<Value64, Pointer>>
    /\ op.return_type = "double"
    /\ op.metadata.arguments[2].slot = 2
    /\ op.metadata.arguments[2].address = 136
    /\ op.metadata.return.slot = op.args_array_size - 2

\* Adding the k-byte numbers a and b, low byte first, leaves all bytes zero.
RECURSIVE CarryInto(_, _, _)
CarryInto(a, b, i) ==
    IF i = 1 THEN 0 ELSE (a[i - 1] + b[i - 1] + CarryInto(a, b, i - 1)) \div 256
AddsToZero(a, b, k) ==
    \A i \in 1..k : (a[i] + b[i] + CarryInto(a, b, i)) % 256 = 0

\* C22: a value of the declared type's range is packed without error into 4
\* bytes (32-bit types) or 8 bytes (64-bit types), little-endian: an
\* integer that is not negative as its magnitude, a negative one as its
\* two's complement, a float in IEEE 754 form.
C22_ValuePackedByWidthAndSign ==
    (pc = "done" /\ op.name = "pack_value") =>
        LET k == IF op.param_type \in {"int64_t", "uint64_t", "double"}
                 THEN 8 ELSE 4
        IN /\ err = "none"
           /\ Len(op.bytes) = k
           /\ op.param_type \notin {"float", "double"} =>
                IF op.arg.neg
                THEN AddsToZero(op.bytes, op.arg.mag, k)
                ELSE op.bytes = SubSeq(op.arg.mag, 1, k)
           /\ (op.param_type = "float" /\ op.arg = "1.0") =>
                op.bytes = <<0, 0, 128, 63>>
           /\ (op.param_type = "double" /\ op.arg = "1.0") =>
                op.bytes = <<0, 0, 0, 0, 0, 0, 240, 63>>

\* C28: the return value is read from the slot the metadata names for it,
\* the last slot of the args buffer for a 32-bit return and the last two
\* for a 64-bit return, whatever the capacity N; a void return reads nothing.
C28_ReturnReadFromMetadataSlot ==
    (pc = "done" /\ op.name = "get_return_value") =>
        LET N == op.args_array_size
            md == calculate_addresses(<<>>, op.return_type, op.args_addr, N).return
            width == ReturnSlots(op.return_type)
        IN IF op.return_type = "void"
           THEN wire = <<>> /\ err = "none"
           ELSE /\ md.address = op.args_addr + 4 * (N - width)
                /\ wire = <<Frame("READ_MEM", md.address, 4 * width)>>

----------------------------------------------------------------------------
(* Properties of the smart-args call, checked under SpecCall *)

\* A call that returned a value to its caller.
CallReturned == pc = "done" /\ op.name = "call" /\ err = "none"

\* Positions of the wire holding a READ_MEM of a per-call array buffer.
ArrayReads ==
    {i \in 1..Len(wire) :
        /\ wire[i].cmd = "READ_MEM"
        /\ \E k \in 1..Len(call.got) : wire[i].addr = call.got[k]}

\* The READ_MEM of the return slot(s) of the loaded function's args buffer.
ReturnSlotRead ==
    LET width == IF handle.signature.return_type \in {"int64_t", "uint64_t", "double"}
                 THEN 2 ELSE 1
    IN Frame("READ_MEM", handle.args_addr + 4 * (ARGS_ARRAY_SIZE - width),
             4 * width)

\* C23: the handle's sync_arrays setting as it was when the call started
\* decides the sync: enabled, every array argument gets its READ_MEM after
\* the EXEC and a copy into the host array is attempted for each; disabled,
\* no READ_MEM of an array buffer is sent and no host array is written;
\* the return slot is read in both cases alike.
C23_SyncFollowsSettingAtCall ==
    CallReturned =>
        /\ IF op.sync
           THEN /\ Len(call.copied) = Len(call.got)
                /\ \A k \in 1..Len(call.got) :
                    \E i \in 1..Len(wire) :
                        /\ wire[i] = Frame("READ_MEM", call.got[k], ArrayBytes)
                        /\ \E j \in 1..(i - 1) : wire[j].cmd = "EXEC"
           ELSE /\ call.copied = <<>>
                /\ ArrayReads = {}
        /\ handle.signature.return_type # "void" =>
                Cardinality({i \in 1..Len(wire) : wire[i] = ReturnSlotRead}) = 1

\* A call with two array arguments returned after sync_arrays had been
\* switched off: the arrays went to the device and none was read back.
C23_Witness ==
    /\ CallReturned
    /\ ~op.sync
    /\ Len(call.got) = 2
    /\ ArrayReads = {}

\* The frames the claim lists for a call, given the frames of the args
\* write: ALLOC and WRITE_MEM per array argument, the args write, EXEC,
\* READ_MEM per tracked array, READ_MEM of the return slot(s), FREE per
\* per-call allocation.
CallFrames(args_write) ==
    LET n == Len(call.got)
        pack_frames == [i \in 1..(2 * n) |->
                           IF i % 2 = 1 THEN Frame("ALLOC", 0, ArrayBytes)
                           ELSE WriteFrame(call.got[i \div 2], 0, ArrayBytes)]
        sync_frames == IF op.sync
                       THEN [k \in 1..n |->
                                Frame("READ_MEM", call.got[k], ArrayBytes)]
                       ELSE <<>>
        return_frames == IF handle.signature.return_type = "void" THEN <<>>
                         ELSE <<ReturnSlotRead>>
        free_frames == [k \in 1..n |-> Frame("FREE", call.got[k], 0)]
    IN pack_frames \o args_write \o <<Frame("EXEC", handle.code_addr, 0)>>
         \o sync_frames \o return_frames \o free_frames

\* C26: the frames of a successful call are, in this order, an ALLOC and
\* the WRITE_MEM of the data per array argument, the WRITE_MEM of the
\* packed slot buffer at args_addr, EXEC, the READ_MEM of each tracked
\* array, the READ_MEM of the return slot(s), the FREE of each per-call
\* allocation.
C26_CallFramesInOrder ==
    CallReturned =>
        wire = CallFrames(<<WriteFrame(handle.args_addr, 0, call.blob)>>)

\* C26 as amended: the same order, where the slot buffer of a function
\* without parameters is empty and its write sends no WRITE_MEM, so that
\* EXEC follows the last frame of pack.
C26_CallFramesInOrderUnlessEmpty ==
    CallReturned =>
        wire = CallFrames(IF call.blob = 0 THEN <<>>
                          ELSE <<WriteFrame(handle.args_addr, 0, call.blob)>>)

\* A call with an array and a scalar returned its value with the array
\* synced back: seven frames, the args write before the EXEC and the
\* array's READ_MEM before its FREE.
C26_Witness ==
    /\ CallReturned
    /\ op.sync
    /\ Len(call.got) = 1
    /\ Len(wire) = 7
    /\ wire[3] = WriteFrame(handle.args_addr, 0, 8)
    /\ wire[4].cmd = "EXEC"
    /\ wire[5] = Frame("READ_MEM", call.got[1], ArrayBytes)
    /\ wire[7] = Frame("FREE", call.got[1], 0)

\* C27: cleanup sends a FREE for every address pack recorded, in the order
\* of recording and whatever the outcome of the frees before it, leaves the
\* pending return or exception of the call as it was, and ends with the
\* marshaller's allocation list and tracked-array list empty.
C27_CleanupFreesAllAndClears ==
    [][pc = "cleanup" =>
        /\ pc' = "done"
        /\ wire' = wire \o [k \in 1..Len(call.allocs) |->
                               Frame("FREE", call.allocs[k], 0)]
        /\ err' = err
        /\ call'.allocs = <<>>
        /\ call'.tracked = <<>>]_vars

\* A cleanup of two addresses whose first free failed: both FREE frames
\* were sent, the first buffer is still in the table, the second is not.
C27_Witness ==
    /\ pc = "done" /\ op.name = "call"
    /\ call.free_failed
    /\ Len(call.got) = 2
    /\ Len(wire) >= 2
    /\ wire[Len(wire) - 1] = Frame("FREE", call.got[1], 0)
    /\ wire[Len(wire)] = Frame("FREE", call.got[2], 0)
    /\ call.got[1] \in DOMAIN allocations
    /\ call.got[2] \notin DOMAIN allocations
    /\ call.allocs = <<>>

\* C34: a call whose number of arguments differs from the signature's
\* parameter count fails with ArityMismatch before anything is allocated
\* or written: no frame is sent, the allocation table is as before, and
\* the cleanup that follows has no address to free.
C34_ArityMismatchTouchesNothing ==
    (pc = "done" /\ op.name = "call" /\ op.was_valid
        /\ Len(op.args) # Len(handle.signature.parameters)) =>
        /\ err = "ArityMismatch"
        /\ call.steps = <<"pack", "cleanup">>
        /\ call.got = <<>>
        /\ wire = <<>>
        /\ allocations = before

\* One array handed to a function of two pointers: ArityMismatch, and
\* nothing on the wire.
C34_Witness ==
    /\ pc = "done" /\ op.name = "call"
    /\ op.args = <<"ndarray">>
    /\ Len(handle.signature.parameters) = 2
    /\ err = "ArityMismatch"
    /\ wire = <<>>
    /\ call.steps = <<"pack", "cleanup">>

\* The call got as far as sync_back.
SyncBackRan == \E i \in 1..Len(call.steps) : call.steps[i] = "sync_back"

\* C30: a sync of a tracked array that fails, in its READ_MEM or in the
\* copy, is skipped: every tracked array still gets its READ_MEM and its
\* copy attempt, sync_back raises nothing, the call goes on to read the
\* return slot, and it fails only if that read does.
C30_SyncFailureIsSkipped ==
    (pc = "done" /\ op.name = "call" /\ SyncBackRan) =>
        /\ call.steps = <<"pack", "write_args", "execute", "sync_back",
                          "read_return", "cleanup">>
        /\ call.failed_in \in {"none", "read_return"}
        /\ (call.failed_in = "none") = (err = "none")
        /\ op.sync =>
            /\ Len(call.copied) = Len(call.got)
            /\ \A k \in 1..Len(call.got) :
                Cardinality({i \in 1..Len(wire) :
                    wire[i] = Frame("READ_MEM", call.got[k], ArrayBytes)}) = 1
        /\ handle.signature.return_type # "void" =>
            \E i \in 1..Len(wire) : wire[i] = ReturnSlotRead

\* The sync of the first of two arrays failed, the second array was still
\* copied back, and the call returned the value read from the return slot.
C30_Witness ==
    /\ CallReturned
    /\ call.copied = <<FALSE, TRUE>>
    /\ handle.signature.return_type = "int"
    /\ \E i \in 1..Len(wire) : wire[i] = ReturnSlotRead

----------------------------------------------------------------------------
(* Auto-detection of the port, checked under SpecDetect *)

\* The probe of the k-th port was answered: the port opened, PING was
\* echoed, and GET_INFO reported a protocol major other than the host's.
ProbeIncompatible(k) ==
    /\ op.envs[k].opened
    /\ op.envs[k].ping
    /\ op.envs[k].o = "ok"
    /\ op.envs[k].reply.len_ok
    /\ op.envs[k].reply.major # PROTOCOL_VERSION_MAJOR

\* C29: once a probed port answers PING and its GET_INFO reports another
\* protocol major, the auto-detecting connect fails with
\* IncompatibleProtocol: that port is the last one probed and the error is
\* not the one of having found no device.
C29_IncompatibleProbeIsFatal ==
    (pc = "done" /\ op.name = "auto_connect") =>
        \A k \in 1..Len(op.probed) :
            ProbeIncompatible(k) =>
                /\ err = "IncompatibleProtocol"
                /\ Len(op.probed) = k

----------------------------------------------------------------------------
(* Properties of the build output, checked under SpecBuild *)

\* C31: a build with a section that starts below base_address, or whose
\* range [address, address + size) ends beyond base_address plus the
\* total_size of the padded binary, fails with BuildInvariant and returns
\* no artifact.
C31_SectionsInsideImageOrFail ==
    (pc = "done" /\ op.name = "builder_build") =>
        LET total_size == pad_bss(op.raw_len, op.sections)
        IN (\E i \in 1..Len(op.sections) :
                \/ op.sections[i].address < op.base_address
                \/ op.sections[i].address + op.sections[i].size
                        > op.base_address + total_size)
            => (err = "BuildInvariant" /\ ~op.artifact)

----------------------------------------------------------------------------
(* Properties of the loader's upload, checked under SpecJit *)

IsWrite(f) == f.cmd = "WRITE_MEM"

\* A load got as far as the upload of its pass-2 blob.
UploadReached ==
    /\ pc = "done" /\ op.name = "load" /\ call.kind = "load"
    /\ call.size2 > 0

\* C32: the code allocation of a load is the pass-1 total_size plus 64
\* bytes. A pass-2 blob longer than that is refused by the bounds check:
\* no WRITE_MEM is sent, load fails without a handle and sends a FREE for
\* the code and the args allocation, which leave the table when their FREE
\* succeeds. A blob that fits passes the bounds check, and the frames of a
\* successful upload carry all of it, from the code allocation's address on.
C32_UploadWithinCodeAllocation ==
    UploadReached =>
        /\ wire[1] = Frame("ALLOC", 0, call.size1 + 64)
        /\ IF call.size2 > call.size1 + 64
           THEN /\ err = "BoundsViolation"
                /\ SelectSeq(wire, IsWrite) = <<>>
                /\ ~handle.loaded
                /\ FreeFrames(wire) = <<Frame("FREE", call.real_code_addr, 0),
                                        Frame("FREE", call.real_args_addr, 0)>>
                /\ ~call.free_failed =>
                        /\ call.real_code_addr \notin DOMAIN allocations
                        /\ call.real_args_addr \notin DOMAIN allocations
           ELSE /\ err # "BoundsViolation"
                /\ err = "none" =>
                    /\ SelectSeq(wire, IsWrite)
                            = <<WriteFrame(call.real_code_addr, 0, call.size2)>>
                    /\ handle.loaded /\ handle.code_addr = call.real_code_addr

\* A pass-2 blob 4 bytes longer than the code allocation was refused and
\* both allocations were freed.
C32_Witness ==
    /\ UploadReached
    /\ call.size2 = call.size1 + 64 + 4
    /\ err = "BoundsViolation"
    /\ ~call.free_failed
    /\ allocations = before
    /\ Len(FreeFrames(wire)) = 2

----------------------------------------------------------------------------
(* Concurrent connects, checked under SpecThreads *)

\* C35: when two sessions connect to the same port from two threads and
\* both connects return, then in every interleaving the registry ends
\* with one entry for the port, its owner's serial handle is open, and the
\* other session's handle is closed.
C35_ConcurrentConnectsSerialized ==
    (pc = "done" /\ op.name = "connect_threads"
        /\ \A s \in Sessions : call.at[s] = "returned") =>
        /\ op.port \in DOMAIN _active_connections
        /\ dm[_active_connections[op.port]].serial = "open"
        /\ \A s \in Sessions \ {_active_connections[op.port]} :
                dm[s].serial # "open"

----------------------------------------------------------------------------
(* The registry and the serial handles, checked under SpecDetect *)

\* C36: whatever connects and disconnects the sessions have made, every
\* registry entry port -> s names a session whose current serial handle is
\* open on that port, and every session whose current handle is open is
\* the registered owner of the port the handle is open on.
C36_RegistryMatchesOpenHandles ==
    /\ \A p \in DOMAIN _active_connections :
        /\ dm[_active_connections[p]].serial = "open"
        /\ dm[_active_connections[p]].on = p
    /\ \A s \in Sessions :
        dm[s].serial = "open" =>
            /\ dm[s].on \in DOMAIN _active_connections
            /\ _active_connections[dm[s].on] = s

\* C40: after an auto-detecting connect no port whose probe failed is
\* registered to the session, and when the connect failed because no device
\* was found the session holds no open serial handle and the registry has
\* no entry for it.
C40_FailedProbesLeaveNothing ==
    (pc = "done" /\ op.name = "auto_connect") =>
        /\ \A k \in 1..Len(op.probed) :
            (k < Len(op.probed) \/ err # "none") =>
                ~(/\ op.probed[k] \in DOMAIN _active_connections
                  /\ _active_connections[op.probed[k]] = op.s)
        /\ err = "NoDeviceFound" =>
            /\ dm[op.s].serial # "open"
            /\ \A p \in DOMAIN _active_connections :
                    _active_connections[p] # op.s

\* C38: when the args write or the execute of a smart-args call fails,
\* neither sync_back nor the return read runs: the call's steps end with
\* the failing step and cleanup, no READ_MEM frame is sent, no host array
\* is copied back, and the caller gets the error.
C38_FailedWriteOrExecSkipsReads ==
    (pc = "done" /\ op.name = "call" /\ call.kind = "call"
        /\ call.failed_in \in {"write_args", "execute"}) =>
        /\ \A k \in 1..Len(call.steps) :
               call.steps[k] \notin {"sync_back", "read_return"}
        /\ call.steps[Len(call.steps)] = "cleanup"
        /\ call.steps[Len(call.steps) - 1] = call.failed_in
        /\ \A i \in 1..Len(wire) : wire[i].cmd # "READ_MEM"
        /\ call.copied = <<>>
        /\ err # "none"

\* A call with an array argument and sync_arrays on whose execute failed
\* after EXEC was sent: the array was uploaded and is not read back.
C38_Witness ==
    /\ pc = "done" /\ op.name = "call" /\ call.kind = "call"
    /\ call.failed_in = "execute"
    /\ call.sync_enabled
    /\ call.got # <<>>
    /\ \E i \in 1..Len(wire) : wire[i].cmd = "EXEC"
    /\ call.copied = <<>>
    /\ err # "none"

----------------------------------------------------------------------------
(* The layout of the packed arguments, checked under SpecAbi *)

\* C39: for a signature the wrapper build accepts, pack puts the bytes of
\* parameter i at byte offset 4 * slot_i of its blob, slot_i being the slot
\* the metadata gives the parameter, and the blob is 4 bytes for every
\* parameter slot and at most 4 * N bytes long.
C39_BlobFollowsMetadataSlots ==
    (pc = "done" /\ op.name = "pack") =>
        LET n == Len(op.parameters)
            md == op.addresses.arguments
            slots == IF n = 0 THEN 0 ELSE md[n].slot + md[n].slot_count
        IN /\ \A i \in 1..n :
                /\ op.offsets[i] = 4 * md[i].slot
                /\ 4 * md[i].slot_count
                     = (IF i < n THEN op.offsets[i + 1] ELSE Len(op.buffer))
                         - op.offsets[i]
           /\ Len(op.buffer) = 4 * slots
           /\ Len(op.buffer) <= 4 * op.args_array_size

----------------------------------------------------------------------------
(* The address a loaded function executes, checked under SpecEntry *)

\* C37: every call on a handle returned by P4JIT.load issues EXEC at the
\* pass-2 artifact's entry_address, the address JITSession.load_function
\* executes for the same artifact: every EXEC frame of a call is at the
\* entry_address of the artifact the called function was made for.
C37_ExecAtEntryAddress ==
    (pc = "done" /\ op.name \in {"call", "raw_call"})
    => \A i \in 1..Len(wire) :
          wire[i].cmd = "EXEC" => wire[i].addr = handle.binary.entry_address

============================================================================
